---- MODULE Spec2Model ----
(***************************************************************************)
(* Calorie Snap: the nutrition resolver (lib/nutrition.ts), the portion   *)
(* calculator, the portion picker, the CSV export, the application store   *)
(* with the photo flow and the history database, the notification of the   *)
(* store by the picker, and the loading of the classifier (lib/tfModel.ts).*)
(*                                                                         *)
(* Representation.                                                         *)
(*  - A JavaScript string is a sequence of one-character strings.          *)
(*  - A JavaScript number is a record [kind, v]: kind "number" with the    *)
(*    value v, or one of the kinds "NaN", "Infinity", "undefined" (v = 0). *)
(*  - Quantities a provider sends are decimals with two places, held in    *)
(*    hundredths (2005 is 20.05); protein, carbs and fat of a              *)
(*    NutritionData record have one place, held in tenths (3 is 0.3);      *)
(*    kcalPer100g and calories are integers.                               *)
(***************************************************************************)
EXTENDS Integers, Sequences, FiniteSets, TLC

----------------------------------------------------------------------------
\* Bounds of the model

\* longest generated food name
MaxNameLen == 3
\* largest kcalPer100g handed to the portion calculator
MaxKcal == 133
\* largest portion handed to the portion calculator, in grams
MaxGrams == 150
\* largest protein handed to calculateMacros, in tenths of a gram
MaxProteinTenths == 107
\* largest slider position of the portion picker in ounces, in tenths of an
\* ounce, short of the slider's maximum
MaxOzTenths == 30
\* most entries handed to exportToCSV
MaxEntries == 2
\* the clock stops here
MaxNow == 1
\* most asynchronous calls of the photo flow not yet settled
MaxInFlight == 2
\* most requests to the database not yet settled
MaxDbQueue == 2
\* most calls of predictFood made
MaxPredictCalls == 3

----------------------------------------------------------------------------
\* JavaScript values

Num(n) == [kind |-> "number", v |-> n]
NaN == [kind |-> "NaN", v |-> 0]
Infinity == [kind |-> "Infinity", v |-> 0]
Undefined == [kind |-> "undefined", v |-> 0]

IsNumber(x) == x.kind = "number"

\* Math.round of the rational num/den (den > 0): the integer nearest to it,
\* a tie going up
MathRound(num, den) == (2 * num + den) \div (2 * den)

SetMin(S) == CHOOSE x \in S : \A y \in S : x <= y
SetMax(S) == CHOOSE x \in S : \A y \in S : y <= x

----------------------------------------------------------------------------
\* IEEE 754 doubles
\*
\* Where the rounding of a product decides the result (calculateMacros), the
\* arithmetic is done as JavaScript does it, in binary with 53 significant
\* bits and round-to-nearest-even.  A natural number of any size is a
\* little-endian sequence of limbs in base 2^15 without a leading zero limb;
\* a double is [m, e] with the value m * 2^e, where m has 53 bits or is zero.

LimbBits == 15
LimbBase == 32768
MantissaBits == 53

RECURSIVE Pow2(_)
Pow2(k) == IF k = 0 THEN 1 ELSE 2 * Pow2(k - 1)

RECURSIVE IntBitLen(_)
IntBitLen(n) == IF n = 0 THEN 0 ELSE 1 + IntBitLen(n \div 2)

RECURSIVE BigTrim(_)
BigTrim(A) ==
  IF A # << >> /\ A[Len(A)] = 0 THEN BigTrim(SubSeq(A, 1, Len(A) - 1)) ELSE A

RECURSIVE BigFromInt(_)
BigFromInt(n) ==
  IF n = 0 THEN << >> ELSE <<n % LimbBase>> \o BigFromInt(n \div LimbBase)

RECURSIVE BigToInt(_)
BigToInt(A) == IF A = << >> THEN 0 ELSE A[1] + LimbBase * BigToInt(Tail(A))

RECURSIVE BigMulSmallCarry(_, _, _)
BigMulSmallCarry(A, s, carry) ==
  IF A = << >> THEN BigFromInt(carry)
  ELSE LET t == A[1] * s + carry
       IN  <<t % LimbBase>> \o BigMulSmallCarry(Tail(A), s, t \div LimbBase)

\* A * s for 0 <= s < 2^15
BigMulSmall(A, s) == BigTrim(BigMulSmallCarry(A, s, 0))

RECURSIVE BigAddCarry(_, _, _)
BigAddCarry(A, B, carry) ==
  IF A = << >> /\ B = << >> THEN BigFromInt(carry)
  ELSE LET a == IF A = << >> THEN 0 ELSE A[1]
           b == IF B = << >> THEN 0 ELSE B[1]
           t == a + b + carry
       IN  <<t % LimbBase>> \o
           BigAddCarry(IF A = << >> THEN A ELSE Tail(A),
                       IF B = << >> THEN B ELSE Tail(B), t \div LimbBase)

BigAdd(A, B) == BigAddCarry(A, B, 0)

\* A * 2^(15 n)
BigShiftLimbs(A, n) == IF A = << >> THEN A ELSE [i \in 1..n |-> 0] \o A

RECURSIVE BigMul(_, _)
BigMul(A, B) ==
  IF B = << >> THEN << >>
  ELSE BigAdd(BigMulSmall(A, B[1]), BigShiftLimbs(BigMul(A, Tail(B)), 1))

\* quotient and remainder of A by d, for 0 < d <= 2^15
RECURSIVE BigDivSmallRaw(_, _)
BigDivSmallRaw(A, d) ==
  IF A = << >> THEN [q |-> << >>, r |-> 0]
  ELSE LET high == BigDivSmallRaw(Tail(A), d)
           t == high.r * LimbBase + A[1]
       IN  [q |-> <<t \div d>> \o high.q, r |-> t % d]

BigDivSmall(A, d) ==
  LET raw == BigDivSmallRaw(A, d) IN [q |-> BigTrim(raw.q), r |-> raw.r]

BigBitLen(A) ==
  IF A = << >> THEN 0 ELSE LimbBits * (Len(A) - 1) + IntBitLen(A[Len(A)])

\* A * 2^k
BigShiftLeft(A, k) ==
  BigShiftLimbs(BigMulSmall(A, Pow2(k % LimbBits)), k \div LimbBits)

\* floor(A / 2^k)
BigShiftRight(A, k) ==
  IF k \div LimbBits >= Len(A) THEN << >>
  ELSE BigDivSmall(SubSeq(A, k \div LimbBits + 1, Len(A)), Pow2(k % LimbBits)).q

\* bit i of A, bit 0 the lowest
BigBit(A, i) ==
  IF i \div LimbBits >= Len(A) THEN 0
  ELSE (A[i \div LimbBits + 1] \div Pow2(i % LimbBits)) % 2

\* the bits of A below bit k are all zero
BigLowBitsZero(A, k) == \A i \in 0..(k - 1) : BigBit(A, i) = 0

DoubleZero == [m |-> << >>, e |-> 0]

\* the double nearest to N * 2^e, a tie going to the even mantissa; sticky
\* says that the exact value is a little more than N * 2^e, and then N has
\* more than 53 bits
RoundToDouble(N, e, sticky) ==
  LET len == BigBitLen(N)
      k == len - MantissaBits
  IN  IF N = << >> THEN DoubleZero
      ELSE IF k <= 0 THEN [m |-> BigShiftLeft(N, -k), e |-> e + k]
      ELSE LET q == BigShiftRight(N, k)
               roundBit == BigBit(N, k - 1)
               rest == sticky \/ ~BigLowBitsZero(N, k - 1)
               up == roundBit = 1 /\ (rest \/ BigBit(q, 0) = 1)
               m1 == IF up THEN BigAdd(q, <<1>>) ELSE q
           IN  IF BigBitLen(m1) > MantissaBits
               THEN [m |-> BigShiftRight(m1, 1), e |-> e + k + 1]
               ELSE [m |-> m1, e |-> e + k]

\* the double of an integer 0 <= n < 2^31
DoubleFromInt(n) == RoundToDouble(BigFromInt(n), 0, FALSE)

\* a * b
DoubleMul(a, b) == RoundToDouble(BigMul(a.m, b.m), a.e + b.e, FALSE)

\* a / d for an integer 0 < d < 2^15
DoubleDivInt(a, d) ==
  LET qr == BigDivSmall(BigShiftLeft(a.m, 2 * LimbBits), d)
  IN  RoundToDouble(qr.q, a.e - 2 * LimbBits, qr.r # 0)

RECURSIVE BigSubBorrow(_, _, _)
BigSubBorrow(A, B, borrow) ==
  IF A = << >> THEN << >>
  ELSE LET b == IF B = << >> THEN 0 ELSE B[1]
           t == A[1] - b - borrow
       IN  <<t % LimbBase>> \o
           BigSubBorrow(Tail(A), IF B = << >> THEN B ELSE Tail(B),
                        IF t < 0 THEN 1 ELSE 0)

\* A - B for A >= B
BigSub(A, B) == BigTrim(BigSubBorrow(A, B, 0))

RECURSIVE BigLess(_, _)
\* A < B
BigLess(A, B) ==
  IF Len(A) # Len(B) THEN Len(A) < Len(B)
  ELSE IF A = << >> THEN FALSE
  ELSE IF A[Len(A)] # B[Len(B)] THEN A[Len(A)] < B[Len(B)]
  ELSE BigLess(BigTrim(SubSeq(A, 1, Len(A) - 1)), BigTrim(SubSeq(B, 1, Len(B) - 1)))

\* long division of r * 2^n by D, for r < D: n times, double the remainder
\* and take D out of it when it fits; quotient q and remainder r
RECURSIVE BigDivBits(_, _, _, _)
BigDivBits(D, n, q, r) ==
  IF n = 0 THEN [q |-> q, r |-> r]
  ELSE LET r2 == BigMulSmall(r, 2)
           fits == ~BigLess(r2, D)
           q2 == BigAdd(BigMulSmall(q, 2), IF fits THEN <<1>> ELSE << >>)
           r3 == IF fits THEN BigSub(r2, D) ELSE r2
       IN  IF Len(q2) >= 0 /\ Len(r3) >= 0
           THEN BigDivBits(D, n - 1, q2, r3)
           ELSE [q |-> q, r |-> r]

\* a / b for b > 0: both mantissas have 53 bits, so the quotient of the
\* mantissas starts with 0 or 1 and 60 more bits follow
DoubleDiv(a, b) ==
  IF a.m = << >> THEN DoubleZero
  ELSE LET first == IF BigLess(a.m, b.m) THEN << >> ELSE <<1>>
           qr == BigDivBits(b.m, 4 * LimbBits, first,
                            IF first = << >> THEN a.m ELSE BigSub(a.m, b.m))
       IN  RoundToDouble(qr.q, a.e - b.e - 4 * LimbBits, qr.r # << >>)

\* Math.round(a) = floor(a + 1/2), for a result below 2^31
DoubleMathRound(a) ==
  IF a.m = << >> THEN 0
  ELSE IF a.e >= 0 THEN BigToInt(BigShiftLeft(a.m, a.e))
  ELSE BigToInt(BigShiftRight(BigAdd(a.m, BigShiftLeft(<<1>>, -a.e - 1)), -a.e))

\* the double written with one decimal place, given in tenths: n / 10
DoubleFromTenths(n) == DoubleDivInt(DoubleFromInt(n), 10)

----------------------------------------------------------------------------
\* Strings

UpperChars == <<"A", "B", "C", "D", "E", "F", "G", "H", "I", "J", "K", "L", "M", "N", "O", "P", "Q", "R", "S", "T", "U", "V", "W", "X", "Y", "Z">>
LowerChars == <<"a", "b", "c", "d", "e", "f", "g", "h", "i", "j", "k", "l", "m", "n", "o", "p", "q", "r", "s", "t", "u", "v", "w", "x", "y", "z">>
WhiteSpace == {" ", "\t"}

toLowerCaseChar(c) ==
  IF \E i \in 1..26 : UpperChars[i] = c
  THEN LowerChars[CHOOSE i \in 1..26 : UpperChars[i] = c]
  ELSE c

\* String.prototype.toLowerCase
toLowerCase(s) == [i \in 1..Len(s) |-> toLowerCaseChar(s[i])]

\* String.prototype.trim
trim(s) ==
  LET kept == {i \in 1..Len(s) : s[i] \notin WhiteSpace}
  IN  IF kept = {} THEN << >> ELSE SubSeq(s, SetMin(kept), SetMax(kept))

\* String.prototype.includes: t occurs in s
includes(s, t) ==
  \E i \in 0..(Len(s) - Len(t)) : SubSeq(s, i + 1, i + Len(t)) = t

----------------------------------------------------------------------------
\* The local food table, in insertion order (the order of Object.entries)

LOCAL_FOOD_DB == <<
  [key |-> <<"a", "p", "p", "l", "e">>,
   value |-> [kcalPer100g |-> Num(52), protein |-> Num(3), carbs |-> Num(140), fat |-> Num(2), source |-> "local"]],
  [key |-> <<"b", "a", "n", "a", "n", "a">>,
   value |-> [kcalPer100g |-> Num(89), protein |-> Num(11), carbs |-> Num(230), fat |-> Num(3), source |-> "local"]],
  [key |-> <<"r", "i", "c", "e">>,
   value |-> [kcalPer100g |-> Num(130), protein |-> Num(27), carbs |-> Num(280), fat |-> Num(3), source |-> "local"]],
  [key |-> <<"c", "h", "i", "c", "k", "e", "n", " ", "b", "r", "e", "a", "s", "t">>,
   value |-> [kcalPer100g |-> Num(165), protein |-> Num(310), carbs |-> Num(0), fat |-> Num(36), source |-> "local"]],
  [key |-> <<"p", "i", "z", "z", "a", " ", "s", "l", "i", "c", "e">>,
   value |-> [kcalPer100g |-> Num(266), protein |-> Num(110), carbs |-> Num(330), fat |-> Num(100), source |-> "local"]],
  [key |-> <<"h", "a", "m", "b", "u", "r", "g", "e", "r">>,
   value |-> [kcalPer100g |-> Num(295), protein |-> Num(170), carbs |-> Num(250), fat |-> Num(150), source |-> "local"]],
  [key |-> <<"p", "a", "s", "t", "a">>,
   value |-> [kcalPer100g |-> Num(131), protein |-> Num(50), carbs |-> Num(250), fat |-> Num(11), source |-> "local"]],
  [key |-> <<"b", "r", "e", "a", "d">>,
   value |-> [kcalPer100g |-> Num(265), protein |-> Num(90), carbs |-> Num(490), fat |-> Num(32), source |-> "local"]],
  [key |-> <<"e", "g", "g", "s">>,
   value |-> [kcalPer100g |-> Num(155), protein |-> Num(130), carbs |-> Num(11), fat |-> Num(110), source |-> "local"]],
  [key |-> <<"m", "i", "l", "k">>,
   value |-> [kcalPer100g |-> Num(42), protein |-> Num(34), carbs |-> Num(50), fat |-> Num(10), source |-> "local"]]
>>

\* The food names the resolver is called with: names of the table in several
\* spellings, names that match a key only partly, names that match none and
\* the names of the properties every object inherits
FixedFoodNames == {
  <<"a", "p", "p", "l", "e">>,
  <<" ", "A", "p", "p", "l", "e", " ">>,
  <<"A", "P", "P", "L", "E">>,
  <<"p", "i", "n", "e", "a", "p", "p", "l", "e">>,
  <<"a", "p", "p">>,
  <<"B", "a", "n", "a", "n", "a">>,
  <<"r", "i", "c", "e">>,
  <<"i", "c", "e">>,
  <<"r", "i", "c", "e", " ", "a", "n", "d", " ", "p", "a", "s", "t", "a">>,
  <<"c", "h", "i", "c", "k", "e", "n">>,
  <<"C", "h", "i", "c", "k", "e", "n", " ", "B", "r", "e", "a", "s", "t", " ">>,
  <<"p", "i", "z", "z", "a">>,
  <<"h", "a", "m", "b", "u", "r", "g", "e", "r">>,
  <<"b", "r", "e", "a", "d">>,
  <<"m", "i", "l", "k">>,
  <<"\t", "M", "i", "l", "k">>,
  <<"u", "n", "k", "n", "o", "w", "n", " ", "f", "o", "o", "d">>,
  <<"c", "o", "n", "s", "t", "r", "u", "c", "t", "o", "r">>,
  <<" ", "C", "o", "n", "s", "t", "r", "u", "c", "t", "o", "r">>,
  <<"_", "_", "p", "r", "o", "t", "o", "_", "_">>
}

\* food names generated over a small alphabet, up to MaxNameLen characters
NameAlphabet == {" ", "E", "e", "g"}
GeneratedFoodNames == UNION {[1..n -> NameAlphabet] : n \in 0..MaxNameLen}

FoodNames == FixedFoodNames \cup GeneratedFoodNames

----------------------------------------------------------------------------
\* getNutritionFromLocal

\* the record returned for a name that matches nothing
DefaultRecord ==
  [kcalPer100g |-> Num(200), protein |-> Num(100), carbs |-> Num(200),
   fat |-> Num(80), source |-> "local"]

\* LOCAL_FOOD_DB is an object literal: besides its own ten keys, a property
\* read finds what every object inherits from Object.prototype.  The
\* normalized name is lower case, and the inherited properties with a
\* lower-case name are these two.
ObjectPrototypeKeys == {
  <<"c", "o", "n", "s", "t", "r", "u", "c", "t", "o", "r">>,
  <<"_", "_", "p", "r", "o", "t", "o", "_", "_">>
}

\* An inherited property (the function Object, or Object.prototype) is
\* truthy and has none of the fields of NutritionData: reading one gives
\* undefined.
InheritedObject ==
  [kcalPer100g |-> Undefined, protein |-> Undefined, carbs |-> Undefined,
   fat |-> Undefined, source |-> "undefined"]

\* foodName.toLowerCase().trim(), without the trim
normalizeName_NoTrim(foodName) == toLowerCase(foodName)

\* foodName.toLowerCase().trim()
normalizeName(foodName) == trim(toLowerCase(foodName))

\* the keys of the table that match the name partly, as indices
partialMatches(normalizedName) ==
  {i \in 1..Len(LOCAL_FOOD_DB) :
     \/ includes(normalizedName, LOCAL_FOOD_DB[i].key)
     \/ includes(LOCAL_FOOD_DB[i].key, normalizedName)}

\* the loop over Object.entries, returning the last match instead of the first
firstPartialMatch_Last(normalizedName) == SetMax(partialMatches(normalizedName))

\* the loop over Object.entries returns at the first match
firstPartialMatch(normalizedName) == SetMin(partialMatches(normalizedName))

getNutritionFromLocal(foodName) ==
  LET normalizedName == normalizeName(foodName)
      own == {i \in 1..Len(LOCAL_FOOD_DB) : LOCAL_FOOD_DB[i].key = normalizedName}
  IN  IF own # {} THEN LOCAL_FOOD_DB[CHOOSE i \in own : TRUE].value
      ELSE IF normalizedName \in ObjectPrototypeKeys THEN InheritedObject
      ELSE IF partialMatches(normalizedName) # {}
           THEN LOCAL_FOOD_DB[firstPartialMatch(normalizedName)].value
      ELSE DefaultRecord

----------------------------------------------------------------------------
\* The records built from a provider's first item

\* Math.round(x * 10) / 10 of a quantity in hundredths, in tenths
roundToTenth(x) == IF IsNumber(x) THEN Num(MathRound(x.v, 10)) ELSE NaN

\* Math.round(nf_calories), the serving weight left out
nutritionixKcal_PerServing(nf_calories, serving_weight_grams) ==
  IF IsNumber(nf_calories) /\ IsNumber(serving_weight_grams)
  THEN Num(MathRound(nf_calories.v, 100))
  ELSE NaN

\* Math.round(food.nf_calories / (food.serving_weight_grams / 100))
nutritionixKcal(nf_calories, serving_weight_grams) ==
  IF ~(IsNumber(nf_calories) /\ IsNumber(serving_weight_grams)) THEN NaN
  ELSE IF serving_weight_grams.v = 0
       THEN (IF nf_calories.v = 0 THEN NaN ELSE Infinity)
  ELSE Num(MathRound(100 * nf_calories.v, serving_weight_grams.v))

nutritionixRecord(food) ==
  [kcalPer100g |-> nutritionixKcal(food.nf_calories, food.serving_weight_grams),
   protein |-> roundToTenth(food.nf_protein),
   carbs |-> roundToTenth(food.nf_total_carbohydrate),
   fat |-> roundToTenth(food.nf_total_fat),
   source |-> "nutritionix"]

calorieNinjasRecord(food) ==
  [kcalPer100g |-> IF IsNumber(food.calories)
                   THEN Num(MathRound(food.calories.v, 100)) ELSE NaN,
   protein |-> roundToTenth(food.protein_g),
   carbs |-> roundToTenth(food.carbohydrates_total_g),
   fat |-> roundToTenth(food.fat_total_g),
   source |-> "calorieninjas"]

\* What a provider can answer.  A quantity is a decimal in hundredths, or
\* undefined when the item lacks the field.
CalorieValues == {Undefined, Num(0), Num(12500), Num(25000)}
WeightValues == {Undefined, Num(0), Num(3000), Num(20000)}
MacroValues == {Undefined, Num(1004), Num(2000)}

NutritionixFoods ==
  [nf_calories : CalorieValues, serving_weight_grams : WeightValues,
   nf_protein : MacroValues, nf_total_carbohydrate : MacroValues,
   nf_total_fat : MacroValues]

CalorieNinjasItems ==
  [calories : CalorieValues, protein_g : MacroValues,
   carbohydrates_total_g : MacroValues, fat_total_g : MacroValues]

\* no item: the provider was not asked, or gave none
NoNutritionixFood ==
  [nf_calories |-> Undefined, serving_weight_grams |-> Undefined,
   nf_protein |-> Undefined, nf_total_carbohydrate |-> Undefined,
   nf_total_fat |-> Undefined]
NoCalorieNinjasItem ==
  [calories |-> Undefined, protein_g |-> Undefined,
   carbohydrates_total_g |-> Undefined, fat_total_g |-> Undefined]


----------------------------------------------------------------------------
\* calculateCalories

\* Math.trunc in place of Math.round
calculateCalories_Trunc(data, g) ==
  IF IsNumber(data.kcalPer100g)
  THEN Num((data.kcalPer100g.v * g) \div 100)
  ELSE NaN

\* Math.round((nutritionData.kcalPer100g * 100) / grams): the ratio upside down
calculateCalories_Inverted(data, g) ==
  IF IsNumber(data.kcalPer100g)
  THEN (IF g = 0 THEN Infinity
        ELSE Num(MathRound(data.kcalPer100g.v * 100, g)))
  ELSE NaN

\* Math.round((nutritionData.kcalPer100g * grams) / 100)
calculateCalories(data, g) ==
  IF IsNumber(data.kcalPer100g)
  THEN Num(MathRound(data.kcalPer100g.v * g, 100))
  ELSE data.kcalPer100g

----------------------------------------------------------------------------
\* calculateMacros

\* Math.round(x * factor) for a macro x: rounded to whole grams
scaleMacro_WholeGrams(x, factor) ==
  IF IsNumber(x)
  THEN Num(10 * DoubleMathRound(DoubleMul(DoubleFromTenths(x.v), factor)))
  ELSE NaN

\* Math.round(x * factor * 10) / 10 for a macro x, held in tenths: the
\* products are products of doubles, Math.round gives an integer n and n / 10
\* is the double written with that one decimal
scaleMacro(x, factor) ==
  IF IsNumber(x)
  THEN Num(DoubleMathRound(
             DoubleMul(DoubleMul(DoubleFromTenths(x.v), factor),
                       DoubleFromInt(10))))
  ELSE NaN

calculateMacros(data, g) ==
  LET factor == DoubleDivInt(DoubleFromInt(g), 100)
  IN  [protein |-> scaleMacro(data.protein, factor),
       carbs |-> scaleMacro(data.carbs, factor),
       fat |-> scaleMacro(data.fat, factor)]

----------------------------------------------------------------------------
\* State

VARIABLES
  foodName,      \* getNutrition: the argument
  env,           \* import.meta.env: which credentials are set
  pc,            \* getNutrition: where the call stands
  result,        \* getNutrition: the value the promise resolved with
  calls,         \* the tiers consulted so far, in order
  inflight,      \* the providers with a request not yet settled
  nxOutcome,     \* how the call of getNutritionFromNutritionix ended
  cnOutcome,     \* how the call of getNutritionFromCalorieNinjas ended
  nxFood,        \* data.foods[0] of the Nutritionix response
  cnFood,        \* data.items[0] of the CalorieNinjas response
  nutritionData, \* calculateCalories: the record
  grams,         \* calculateCalories: the portion, in grams
  calories,      \* calculateCalories: the value returned
  macros,        \* calculateMacros: the value returned
  portion,       \* PortionPicker: the portion state
  activeMode,    \* PortionPicker: the activeMode state
  units,         \* PortionPicker: the units prop (settings.units)
  edited,        \* PortionPicker: the field and value of the last update
  entries,       \* exportToCSV: the argument
  locale,        \* exportToCSV: the locale of the browser
  csvContent,    \* exportToCSV: the value returned
  currentScreen, \* store: the screen shown
  capturedImage, \* store: the photo, or null
  predictions,   \* store: the predictions of the classifier
  selectedFood,  \* store: the food chosen, or null
  history,       \* store: the history list shown
  isLoading,     \* store: the loading flag
  error,         \* store: the error message, or null
  db,            \* IndexedDB: the entries of the object store 'history'
  now,           \* the clock: Date.now()
  dbQueue,       \* IndexedDB: the requests not yet settled, oldest first
  tasks,         \* the asynchronous calls of the photo flow not yet settled
  lastRequest,   \* IndexedDB: the request settled last, and the entries before a put
  camera,        \* CameraCapture: the stream and isCapturing states
  portionData,   \* store: the portion
  onPortionChange, \* App: the identity of the callback of its latest render
  effectDeps,    \* PortionPicker: the dependencies its effect last ran with
  renderPending, \* App: the store changed since its latest render
  model,         \* tfModel: the module variable model
  isModelLoading, \* tfModel: the module variable isModelLoading
  predictCalls   \* tfModel: where each call of predictFood stands

vars == <<foodName, env, pc, result, calls, inflight, nxOutcome, cnOutcome,
          nxFood, cnFood, nutritionData, grams, calories, macros,
          portion, activeMode, units, edited, entries, locale, csvContent,
          currentScreen, capturedImage, predictions, selectedFood, history,
          isLoading, error, db, now, dbQueue, tasks, lastRequest, camera,
          portionData, onPortionChange, effectDeps, renderPending,
          model, isModelLoading, predictCalls>>

resolverVars == <<foodName, env, pc, result, calls, inflight, nxOutcome,
                  cnOutcome, nxFood, cnFood>>
calcVars == <<nutritionData, grams, calories, macros>>
pickerVars == <<portion, activeMode, units, edited>>
exportVars == <<entries, locale, csvContent>>
storeVars == <<currentScreen, capturedImage, predictions, selectedFood, history,
               isLoading, error, db, now, dbQueue, tasks, lastRequest, camera>>
notifyVars == <<portionData, onPortionChange, effectDeps, renderPending>>
modelVars == <<model, isModelLoading, predictCalls>>

\* no value yet
NoResult ==
  [kcalPer100g |-> Undefined, protein |-> Undefined, carbs |-> Undefined,
   fat |-> Undefined, source |-> "pending"]

Envs ==
  [VITE_NUTRITIONIX_APP_ID : BOOLEAN, VITE_NUTRITIONIX_API_KEY : BOOLEAN,
   VITE_CALORIE_NINJAS_KEY : BOOLEAN]

ResolverIdle ==
  /\ pc = "idle"
  /\ result = NoResult
  /\ calls = << >>
  /\ inflight = {}
  /\ nxOutcome = "notCalled"
  /\ cnOutcome = "notCalled"
  /\ nxFood = NoNutritionixFood
  /\ cnFood = NoCalorieNinjasItem

\* the portion of the store before any edit: { servings: 1, grams: 100 };
\* servings are held in thousandths, grams are integers
InitialPortion == [servings |-> Num(1000), grams |-> Num(100)]
NoEdit == [field |-> "none", value |-> Undefined]

PickerIdle ==
  /\ portion = InitialPortion
  /\ activeMode = "grams"
  /\ units = "g"
  /\ edited = NoEdit

\* no CSV yet
NoCsv == <<"none">>

ExportIdle ==
  /\ entries = << >>
  /\ locale = "en-US"
  /\ csvContent = NoCsv

\* null of a store field
Null == [kind |-> "null"]

\* an error string of the store
Message(m) == [message |-> m]

\* a request to the database that has not settled, and the store action
\* that awaits it
Request(req, arg, op) == [req |-> req, arg |-> arg, op |-> op]

NoRequest == [req |-> "none", outcome |-> "none", before |-> {}]

\* CameraCapture as mounted: no stream, not capturing
CameraIdle == [stream |-> FALSE, isCapturing |-> FALSE]

StoreIdle ==
  /\ currentScreen = "landing"
  /\ capturedImage = Null
  /\ predictions = << >>
  /\ selectedFood = Null
  /\ history = << >>
  /\ isLoading = FALSE
  /\ error = Null
  /\ db = {}
  /\ now = 0
  /\ dbQueue = << >>
  /\ tasks = << >>
  /\ lastRequest = NoRequest
  /\ camera = CameraIdle

\* the App and the PortionPicker before the picker is mounted
NotifyIdle ==
  /\ portionData = InitialPortion
  /\ onPortionChange = 0
  /\ effectDeps = Null
  /\ renderPending = FALSE

\* lib/tfModel.ts as loaded: let model = null; let isModelLoading = false
ModelIdle ==
  /\ model = Null
  /\ isModelLoading = FALSE
  /\ predictCalls = << >>

\* calculateMacros has not returned
NoMacros == [protein |-> Undefined, carbs |-> Undefined, fat |-> Undefined]

CalcIdle ==
  /\ nutritionData = DefaultRecord
  /\ grams = 0
  /\ calories = Undefined
  /\ macros = NoMacros

----------------------------------------------------------------------------
\* getNutrition

\* the reasons a provider call throws: the fetch rejects (network error),
\* the status is outside 200..299, the body does not parse, the body has no
\* list, the list is empty
FailureReasons == {"rejected", "notOk", "unparsable", "noList", "emptyList"}
EmptyBodies == {"unparsable", "noList", "emptyList"}
FetchOutcomes == {"rejected", "notOk", "ok"}

Failed(outcome) == outcome \in FailureReasons

\* line 37: return getNutritionFromLocal(foodName)
FallbackToLocal(settled) ==
  /\ pc' = "done"
  /\ result' = getNutritionFromLocal(foodName)
  /\ calls' = Append(calls, "local")
  /\ inflight' = settled
  /\ UNCHANGED <<cnOutcome, cnFood>>

\* lines 27-37, reached when the Nutritionix tier is skipped or has thrown:
\* start the CalorieNinjas request if its key is set, else read the table
TryCalorieNinjas(settled) ==
  IF env.VITE_CALORIE_NINJAS_KEY
  THEN /\ pc' = "cnFetch"
       /\ calls' = Append(calls, "calorieninjas")
       /\ inflight' = settled \cup {"calorieninjas"}
       /\ cnOutcome' = "pending"
       /\ UNCHANGED <<result, cnFood>>
  ELSE FallbackToLocal(settled)

\* an error thrown in getNutritionFromNutritionix leaves getNutrition
NutritionixThrows_Uncaught(reason) ==
  /\ nxOutcome' = reason
  /\ pc' = "threw"
  /\ inflight' = inflight \ {"nutritionix"}
  /\ UNCHANGED <<result, calls, cnOutcome, cnFood>>

\* lines 22-27: an error thrown in getNutritionFromNutritionix is caught and
\* control goes on to the CalorieNinjas tier
NutritionixThrows(reason) ==
  /\ nxOutcome' = reason
  /\ TryCalorieNinjas(inflight \ {"nutritionix"})

\* lines 31-37: an error thrown in getNutritionFromCalorieNinjas is caught
\* and the table is read
CalorieNinjasThrows(reason) ==
  /\ pc' = "done"
  /\ result' = getNutritionFromLocal(foodName)
  /\ calls' = Append(calls, "local")
  /\ inflight' = inflight \ {"calorieninjas"}
  /\ cnOutcome' = reason
  /\ UNCHANGED cnFood

\* lines 17-21 and 40-58: the call, up to its first await
GetNutrition ==
  /\ pc = "idle"
  /\ IF env.VITE_NUTRITIONIX_APP_ID /\ env.VITE_NUTRITIONIX_API_KEY
     THEN /\ pc' = "nxFetch"
          /\ calls' = Append(calls, "nutritionix")
          /\ inflight' = inflight \cup {"nutritionix"}
          /\ nxOutcome' = "pending"
          /\ UNCHANGED <<result, cnOutcome, cnFood>>
     ELSE /\ TryCalorieNinjas(inflight)
          /\ UNCHANGED nxOutcome
  /\ UNCHANGED <<foodName, env, nxFood>>
  /\ UNCHANGED calcVars
  /\ UNCHANGED pickerVars
  /\ UNCHANGED exportVars
  /\ UNCHANGED storeVars
  /\ UNCHANGED notifyVars
  /\ UNCHANGED modelVars

\* the Nutritionix fetch is given up after a while and control goes on to
\* the next tier with the request still pending
NutritionixFetchSettles_TimesOut ==
  /\ pc = "nxFetch"
  /\ \/ \E outcome \in FetchOutcomes :
          IF outcome = "ok"
          THEN /\ pc' = "nxJson"
               /\ UNCHANGED <<result, calls, inflight, nxOutcome, cnOutcome, cnFood>>
          ELSE NutritionixThrows(outcome)
     \/ /\ nxOutcome' = "rejected"
        /\ TryCalorieNinjas(inflight)
  /\ UNCHANGED <<foodName, env, nxFood>>
  /\ UNCHANGED calcVars
  /\ UNCHANGED pickerVars
  /\ UNCHANGED exportVars
  /\ UNCHANGED storeVars
  /\ UNCHANGED notifyVars
  /\ UNCHANGED modelVars

\* lines 48-64: the Nutritionix fetch settles
NutritionixFetchSettles ==
  /\ pc = "nxFetch"
  /\ \E outcome \in FetchOutcomes :
       IF outcome = "ok"
       THEN /\ pc' = "nxJson"
            /\ UNCHANGED <<result, calls, inflight, nxOutcome, cnOutcome, cnFood>>
       ELSE NutritionixThrows(outcome)
  /\ UNCHANGED <<foodName, env, nxFood>>
  /\ UNCHANGED calcVars
  /\ UNCHANGED pickerVars
  /\ UNCHANGED exportVars
  /\ UNCHANGED storeVars
  /\ UNCHANGED notifyVars
  /\ UNCHANGED modelVars

\* lines 64-68: response.json() settles without a first item
NutritionixBodyEmpty ==
  /\ pc = "nxJson"
  /\ \E body \in EmptyBodies : NutritionixThrows(body)
  /\ UNCHANGED <<foodName, env, nxFood>>
  /\ UNCHANGED calcVars
  /\ UNCHANGED pickerVars
  /\ UNCHANGED exportVars
  /\ UNCHANGED storeVars
  /\ UNCHANGED notifyVars
  /\ UNCHANGED modelVars

\* the record is built and not returned: control goes on to line 27
NutritionixReturns_FallsThrough(food) ==
  /\ nxOutcome' = "succeeded"
  /\ nxFood' = food
  /\ TryCalorieNinjas(inflight \ {"nutritionix"})

\* lines 70-78, 21: the record built from the first item is returned
NutritionixReturns(food) ==
  /\ nxOutcome' = "succeeded"
  /\ nxFood' = food
  /\ pc' = "done"
  /\ result' = nutritionixRecord(food)
  /\ inflight' = inflight \ {"nutritionix"}
  /\ UNCHANGED <<calls, cnOutcome, cnFood>>

\* lines 64-78: response.json() settles with a first item
NutritionixBodySettles ==
  /\ pc = "nxJson"
  /\ \E food \in NutritionixFoods : NutritionixReturns(food)
  /\ UNCHANGED <<foodName, env>>
  /\ UNCHANGED calcVars
  /\ UNCHANGED pickerVars
  /\ UNCHANGED exportVars
  /\ UNCHANGED storeVars
  /\ UNCHANGED notifyVars
  /\ UNCHANGED modelVars

\* lines 88-98: the CalorieNinjas fetch settles
CalorieNinjasFetchSettles ==
  /\ pc = "cnFetch"
  /\ \E outcome \in FetchOutcomes :
       IF outcome = "ok"
       THEN /\ pc' = "cnJson"
            /\ UNCHANGED <<result, calls, inflight, cnOutcome, cnFood>>
       ELSE CalorieNinjasThrows(outcome)
  /\ UNCHANGED <<foodName, env, nxOutcome, nxFood>>
  /\ UNCHANGED calcVars
  /\ UNCHANGED pickerVars
  /\ UNCHANGED exportVars
  /\ UNCHANGED storeVars
  /\ UNCHANGED notifyVars
  /\ UNCHANGED modelVars

\* lines 98-102: response.json() settles without a first item
CalorieNinjasBodyEmpty ==
  /\ pc = "cnJson"
  /\ \E body \in EmptyBodies : CalorieNinjasThrows(body)
  /\ UNCHANGED <<foodName, env, nxOutcome, nxFood>>
  /\ UNCHANGED calcVars
  /\ UNCHANGED pickerVars
  /\ UNCHANGED exportVars
  /\ UNCHANGED storeVars
  /\ UNCHANGED notifyVars
  /\ UNCHANGED modelVars

\* lines 98-112, 30: response.json() settles with a first item, and the
\* record built from it is returned
CalorieNinjasBodySettles ==
  /\ pc = "cnJson"
  /\ \E food \in CalorieNinjasItems :
       /\ cnOutcome' = "succeeded"
       /\ cnFood' = food
       /\ pc' = "done"
       /\ result' = calorieNinjasRecord(food)
       /\ inflight' = inflight \ {"calorieninjas"}
       /\ UNCHANGED calls
  /\ UNCHANGED <<foodName, env, nxOutcome, nxFood>>
  /\ UNCHANGED calcVars
  /\ UNCHANGED pickerVars
  /\ UNCHANGED exportVars
  /\ UNCHANGED storeVars
  /\ UNCHANGED notifyVars
  /\ UNCHANGED modelVars

Init ==
  /\ foodName \in FoodNames
  /\ env \in Envs
  /\ ResolverIdle
  /\ CalcIdle
  /\ PickerIdle
  /\ ExportIdle
  /\ StoreIdle
  /\ NotifyIdle
  /\ ModelIdle

Next ==
  \/ GetNutrition
  \/ NutritionixFetchSettles
  \/ NutritionixBodyEmpty
  \/ NutritionixBodySettles
  \/ CalorieNinjasFetchSettles
  \/ CalorieNinjasBodyEmpty
  \/ CalorieNinjasBodySettles

Spec == Init /\ [][Next]_vars

\* getNutrition for the names written out above only: how a resolution
\* proceeds in time does not depend on the name
InitFixedNames ==
  /\ Init
  /\ foodName \in FixedFoodNames

SpecFixedNames == InitFixedNames /\ [][Next]_vars

----------------------------------------------------------------------------
\* The portion calculator on its own

CalculateCalories ==
  /\ calories = Undefined
  /\ calories' = calculateCalories(nutritionData, grams)
  /\ UNCHANGED <<nutritionData, grams, macros>>
  /\ UNCHANGED resolverVars
  /\ UNCHANGED pickerVars
  /\ UNCHANGED exportVars
  /\ UNCHANGED storeVars
  /\ UNCHANGED notifyVars
  /\ UNCHANGED modelVars

CalcRecords ==
  {[DefaultRecord EXCEPT !.kcalPer100g = Num(k)] : k \in 0..MaxKcal}

InitCalc ==
  /\ foodName = << >>
  /\ env = [VITE_NUTRITIONIX_APP_ID |-> FALSE, VITE_NUTRITIONIX_API_KEY |-> FALSE,
            VITE_CALORIE_NINJAS_KEY |-> FALSE]
  /\ ResolverIdle
  /\ nutritionData \in CalcRecords
  /\ grams \in 0..MaxGrams
  /\ calories = Undefined
  /\ macros = NoMacros
  /\ PickerIdle
  /\ ExportIdle
  /\ StoreIdle
  /\ NotifyIdle
  /\ ModelIdle

NextCalc == CalculateCalories

SpecCalc == InitCalc /\ [][NextCalc]_vars

\* calculateMacros on its own
CalculateMacros ==
  /\ macros = NoMacros
  /\ macros' = calculateMacros(nutritionData, grams)
  /\ UNCHANGED <<nutritionData, grams, calories>>
  /\ UNCHANGED resolverVars
  /\ UNCHANGED pickerVars
  /\ UNCHANGED exportVars
  /\ UNCHANGED storeVars
  /\ UNCHANGED notifyVars
  /\ UNCHANGED modelVars

\* records with one decimal place: every protein up to the bound, with the
\* carbs and fat of the two tests
CarbsAndFatTenths == {<<200, 50>>, <<203, 58>>}
MacroRecords ==
  {[kcalPer100g |-> Num(100), protein |-> Num(p), carbs |-> Num(cf[1]),
    fat |-> Num(cf[2]), source |-> "local"] :
     p \in 0..MaxProteinTenths, cf \in CarbsAndFatTenths}

\* the portions handed to calculateMacros: every fifth gram
MacroGrams == {g \in 0..MaxGrams : g % 5 = 0}

InitMacros ==
  /\ foodName = << >>
  /\ env = [VITE_NUTRITIONIX_APP_ID |-> FALSE, VITE_NUTRITIONIX_API_KEY |-> FALSE,
            VITE_CALORIE_NINJAS_KEY |-> FALSE]
  /\ ResolverIdle
  /\ nutritionData \in MacroRecords
  /\ grams \in MacroGrams
  /\ calories = Undefined
  /\ macros = NoMacros
  /\ PickerIdle
  /\ ExportIdle
  /\ StoreIdle
  /\ NotifyIdle
  /\ ModelIdle

NextMacros == CalculateMacros

SpecMacros == InitMacros /\ [][NextMacros]_vars

----------------------------------------------------------------------------
\* PortionPicker

\* Math.max(lo, Math.min(hi, x)); NaN when x is NaN
clamp(lo, hi, x) ==
  IF ~IsNumber(x) THEN NaN
  ELSE IF x.v < lo THEN Num(lo)
  ELSE IF x.v > hi THEN Num(hi)
  ELSE x

\* the portion updateServings sets, servings in thousandths
servingsPortion(newServings) ==
  LET clampedServings == clamp(250, 3000, newServings)
  IN  [servings |-> clampedServings,
       grams |-> IF IsNumber(clampedServings)
                 THEN Num(MathRound(clampedServings.v, 10)) ELSE NaN]

\* updateGrams that keeps the servings it had
gramsPortion_StaleServings(newGrams) ==
  [servings |-> portion.servings, grams |-> clamp(10, 1000, newGrams)]

\* the portion updateGrams sets: servings are Math.round(grams / 100 * 4) / 4
gramsPortion(newGrams) ==
  LET clampedGrams == clamp(10, 1000, newGrams)
  IN  [servings |-> IF IsNumber(clampedGrams)
                    THEN Num(250 * MathRound(4 * clampedGrams.v, 100)) ELSE NaN,
       grams |-> clampedGrams]

updateServings(newServings) ==
  /\ portion' = servingsPortion(newServings)
  /\ edited' = [field |-> "servings", value |-> newServings]

updateGrams(newGrams) ==
  /\ portion' = gramsPortion(newGrams)
  /\ edited' = [field |-> "grams", value |-> newGrams]

\* the double 0.035274
OuncesPerGram == DoubleDiv(DoubleFromInt(35274), DoubleFromInt(1000000))

\* convertToDisplayUnits in ounces: Math.round(grams * 0.035274 * 10) / 10,
\* in tenths of an ounce
gramsToOzTenths(g) ==
  DoubleMathRound(DoubleMul(DoubleMul(DoubleFromInt(g), OuncesPerGram),
                            DoubleFromInt(10)))

\* the positions of the slider: min, min + step, ..., max
SliderServings == {250 * i : i \in 1..12}
SliderGrams == {10 * i : i \in 1..100}
SliderOzTenths == (gramsToOzTenths(10)..MaxOzTenths) \cup {gramsToOzTenths(1000)}

\* what can be typed into the number input: nothing (parseFloat gives NaN),
\* values inside and outside the range
TypedServings == {NaN, Num(0), Num(100), Num(1000), Num(1300), Num(3500)}
TypedGrams == {NaN, Num(0), Num(5), Num(137), Num(250), Num(1000), Num(2500)}
TypedOzTenths == {NaN, Num(0), Num(1), Num(1000)}

\* Math.round(value / 0.035274) for a value of t tenths of an ounce
ozToGrams(t) == DoubleMathRound(DoubleDiv(DoubleFromTenths(t), OuncesPerGram))

\* Math.round(value / 0.035274) for the values in ounces with one decimal
\* that the slider and the number input can give, in tenths
ozTenthsToGrams ==
  [t \in SliderOzTenths \cup {x.v : x \in TypedOzTenths \ {NaN}} |-> ozToGrams(t)]

\* convertFromDisplayUnits(value), the value in tenths of an ounce or in grams
convertFromDisplayUnits(value) ==
  IF units = "oz"
  THEN (IF IsNumber(value) THEN Num(ozTenthsToGrams[value.v]) ELSE NaN)
  ELSE value

presetServings == {250, 500, 750, 1000, 1250, 1500, 2000, 2500, 3000}
presetGrams == {50, 100, 150, 200, 250, 300, 400, 500}

\* handleSliderChange(value), numValue = parseFloat(value)
handleSliderChange(numValue) ==
  IF activeMode = "servings"
  THEN updateServings(numValue)
  ELSE updateGrams(convertFromDisplayUnits(numValue))

\* setActiveMode by one of the two mode buttons
SetActiveMode ==
  /\ \E mode \in {"servings", "grams"} : activeMode' = mode
  /\ UNCHANGED <<portion, units, edited>>
  /\ UNCHANGED resolverVars
  /\ UNCHANGED calcVars
  /\ UNCHANGED exportVars
  /\ UNCHANGED storeVars
  /\ UNCHANGED notifyVars
  /\ UNCHANGED modelVars

\* onChange of the range input
SliderChange ==
  /\ \E v \in (IF activeMode = "servings" THEN SliderServings
               ELSE IF units = "oz" THEN SliderOzTenths ELSE SliderGrams) :
       handleSliderChange(Num(v))
  /\ UNCHANGED <<activeMode, units>>
  /\ UNCHANGED resolverVars
  /\ UNCHANGED calcVars
  /\ UNCHANGED exportVars
  /\ UNCHANGED storeVars
  /\ UNCHANGED notifyVars
  /\ UNCHANGED modelVars

\* onChange of the number input
ManualInput ==
  /\ \E numValue \in (IF activeMode = "servings" THEN TypedServings
                      ELSE IF units = "oz" THEN TypedOzTenths ELSE TypedGrams) :
       handleSliderChange(numValue)
  /\ UNCHANGED <<activeMode, units>>
  /\ UNCHANGED resolverVars
  /\ UNCHANGED calcVars
  /\ UNCHANGED exportVars
  /\ UNCHANGED storeVars
  /\ UNCHANGED notifyVars
  /\ UNCHANGED modelVars

\* handlePresetClick(value, activeMode)
PresetClick ==
  /\ IF activeMode = "servings"
     THEN \E value \in presetServings : updateServings(Num(value))
     ELSE \E value \in presetGrams : updateGrams(Num(value))
  /\ UNCHANGED <<activeMode, units>>
  /\ UNCHANGED resolverVars
  /\ UNCHANGED calcVars
  /\ UNCHANGED exportVars
  /\ UNCHANGED storeVars
  /\ UNCHANGED notifyVars
  /\ UNCHANGED modelVars

\* a number plus or minus a step; NaN stays NaN
plus(x, step) == IF IsNumber(x) THEN Num(x.v + step) ELSE NaN

\* onClick of the minus button
MinusClick ==
  /\ IF activeMode = "servings"
     THEN updateServings(plus(portion.servings, -250))
     ELSE updateGrams(plus(portion.grams, -10))
  /\ UNCHANGED <<activeMode, units>>
  /\ UNCHANGED resolverVars
  /\ UNCHANGED calcVars
  /\ UNCHANGED exportVars
  /\ UNCHANGED storeVars
  /\ UNCHANGED notifyVars
  /\ UNCHANGED modelVars

\* onClick of the plus button
PlusClick ==
  /\ IF activeMode = "servings"
     THEN updateServings(plus(portion.servings, 250))
     ELSE updateGrams(plus(portion.grams, 10))
  /\ UNCHANGED <<activeMode, units>>
  /\ UNCHANGED resolverVars
  /\ UNCHANGED calcVars
  /\ UNCHANGED exportVars
  /\ UNCHANGED storeVars
  /\ UNCHANGED notifyVars
  /\ UNCHANGED modelVars

InitPicker ==
  /\ foodName = << >>
  /\ env = [VITE_NUTRITIONIX_APP_ID |-> FALSE, VITE_NUTRITIONIX_API_KEY |-> FALSE,
            VITE_CALORIE_NINJAS_KEY |-> FALSE]
  /\ ResolverIdle
  /\ CalcIdle
  /\ portion = InitialPortion
  /\ activeMode = "grams"
  /\ units \in {"g", "oz"}
  /\ edited = NoEdit
  /\ ExportIdle
  /\ StoreIdle
  /\ NotifyIdle
  /\ ModelIdle

NextPicker ==
  \/ SetActiveMode
  \/ SliderChange
  \/ ManualInput
  \/ PresetClick
  \/ MinusClick
  \/ PlusClick

SpecPicker == InitPicker /\ [][NextPicker]_vars

----------------------------------------------------------------------------
\* exportToCSV

DecimalDigits == <<"0", "1", "2", "3", "4", "5", "6", "7", "8", "9">>

\* the decimal digits of a natural number
RECURSIVE digits(_)
digits(n) ==
  IF n < 10 THEN <<DecimalDigits[n + 1]>>
  ELSE Append(digits(n \div 10), DecimalDigits[(n % 10) + 1])

\* the digits of the fraction frac / scale without trailing zeros
RECURSIVE fractionDigits(_, _)
fractionDigits(frac, scale) ==
  IF frac = 0 THEN << >>
  ELSE <<DecimalDigits[(frac * 10) \div scale + 1]>>
         \o fractionDigits((frac * 10) % scale, scale)

\* Number.prototype.toString of the number v / scale, v >= 0
numberToString(x, scale) ==
  IF ~IsNumber(x) THEN <<"N", "a", "N">>
  ELSE digits(x.v \div scale)
         \o (IF x.v % scale = 0 THEN << >>
             ELSE <<".">> \o fractionDigits(x.v % scale, scale))

\* two digits, as the minutes and seconds of a time
twoDigits(n) == IF n < 10 THEN <<"0">> \o digits(n) ELSE digits(n)

\* Date.prototype.toLocaleDateString() in the locale of the browser
toLocaleDateString(date, loc) ==
  IF loc = "en-US"
  THEN digits(date.month) \o <<"/">> \o digits(date.day) \o <<"/">> \o digits(date.year)
  ELSE digits(date.day) \o <<".">> \o digits(date.month) \o <<".">> \o digits(date.year)

\* Date.prototype.toLocaleTimeString() in the locale of the browser
toLocaleTimeString(date, loc) ==
  IF loc = "en-US"
  THEN digits(IF date.hour % 12 = 0 THEN 12 ELSE date.hour % 12)
         \o <<":">> \o twoDigits(date.minute) \o <<":">> \o twoDigits(date.second)
         \o (IF date.hour < 12 THEN <<" ", "A", "M">> ELSE <<" ", "P", "M">>)
  ELSE twoDigits(date.hour) \o <<":">> \o twoDigits(date.minute)
         \o <<":">> \o twoDigits(date.second)

\* Math.round(confidence * 100) in double arithmetic, confidence in thousandths
confidencePercent(c) ==
  DoubleMathRound(DoubleMul(DoubleDivInt(DoubleFromInt(c), 1000), DoubleFromInt(100)))

\* Array.prototype.join that ends every element with the separator
RECURSIVE join_Trailing(_, _)
join_Trailing(strings, sep) ==
  IF strings = << >> THEN << >>
  ELSE Head(strings) \o sep \o join_Trailing(Tail(strings), sep)

\* Array.prototype.join
RECURSIVE join(_, _)
join(strings, sep) ==
  IF strings = << >> THEN << >>
  ELSE IF Len(strings) = 1 THEN Head(strings)
  ELSE Head(strings) \o sep \o join(Tail(strings), sep)

headers ==
  <<<<"D", "a", "t", "e">>,
    <<"T", "i", "m", "e">>,
    <<"F", "o", "o", "d">>,
    <<"P", "o", "r", "t", "i", "o", "n", " ", "(", "g", ")">>,
    <<"S", "e", "r", "v", "i", "n", "g", "s">>,
    <<"C", "a", "l", "o", "r", "i", "e", "s">>,
    <<"P", "r", "o", "t", "e", "i", "n", " ", "(", "g", ")">>,
    <<"C", "a", "r", "b", "s", " ", "(", "g", ")">>,
    <<"F", "a", "t", " ", "(", "g", ")">>,
    <<"C", "o", "n", "f", "i", "d", "e", "n", "c", "e">>>>

\* the row of one entry: the array of ten strings
row(entry, loc) ==
  <<toLocaleDateString(entry.date, loc),
    toLocaleTimeString(entry.date, loc),
    <<"\"">> \o entry.displayName \o <<"\"">>,
    numberToString(entry.grams, 1),
    numberToString(entry.servings, 1000),
    numberToString(entry.kcal, 1),
    numberToString(entry.macros.protein, 10),
    numberToString(entry.macros.carbs, 10),
    numberToString(entry.macros.fat, 10),
    digits(confidencePercent(entry.confidence)) \o <<"%">> >>

exportToCSV(es, loc) ==
  LET rows == [i \in 1..Len(es) |-> row(es[i], loc)]
  IN  join(<<join(headers, <<",">>)>>
             \o [i \in 1..Len(rows) |-> join(rows[i], <<",">>)],
           <<"\n">>)

Locales == {"en-US", "de-DE"}

\* display names: none, a word, the name with a comma of the tests, and names
\* with double quotes as a manual search can give them
DisplayNames ==
  {<< >>, <<"a">>, <<"a", ",", "a">>, <<"a", "\"">>, <<"\"", "a">>,
   <<"\"", ",", "\"">>}

\* the fields of an entry other than its name, the date being new
\* Date(entry.timestamp) as local calendar fields: the entry of the tests,
\* and one saved in the afternoon after a manual search
EntryValues ==
  {[date |-> [year |-> 2022, month |-> 1, day |-> 1, hour |-> 0, minute |-> 0, second |-> 0],
    grams |-> Num(150), servings |-> Num(1500), kcal |-> Num(78),
    macros |-> [protein |-> Num(4), carbs |-> Num(206), fat |-> Num(2)],
    confidence |-> 850],
   [date |-> [year |-> 2024, month |-> 11, day |-> 15, hour |-> 13, minute |-> 5, second |-> 9],
    grams |-> Num(250), servings |-> Num(2500), kcal |-> Num(130),
    macros |-> [protein |-> Num(8), carbs |-> Num(345), fat |-> Num(0)],
    confidence |-> 500]}

HistoryEntries ==
  {[date |-> v.date, displayName |-> name, grams |-> v.grams,
    servings |-> v.servings, kcal |-> v.kcal, macros |-> v.macros,
    confidence |-> v.confidence] : v \in EntryValues, name \in DisplayNames}

EntryLists ==
  UNION {[1..n -> HistoryEntries] : n \in 0..MaxEntries}

\* exportToCSV(entries)
ExportToCSV ==
  /\ csvContent = NoCsv
  /\ csvContent' = exportToCSV(entries, locale)
  /\ UNCHANGED <<entries, locale>>
  /\ UNCHANGED resolverVars
  /\ UNCHANGED calcVars
  /\ UNCHANGED pickerVars
  /\ UNCHANGED storeVars
  /\ UNCHANGED notifyVars
  /\ UNCHANGED modelVars

InitExport ==
  /\ foodName = << >>
  /\ env = [VITE_NUTRITIONIX_APP_ID |-> FALSE, VITE_NUTRITIONIX_API_KEY |-> FALSE,
            VITE_CALORIE_NINJAS_KEY |-> FALSE]
  /\ ResolverIdle
  /\ CalcIdle
  /\ PickerIdle
  /\ StoreIdle
  /\ NotifyIdle
  /\ ModelIdle
  /\ entries \in EntryLists
  /\ locale \in Locales
  /\ csvContent = NoCsv

NextExport == ExportToCSV

SpecExport == InitExport /\ [][NextExport]_vars

----------------------------------------------------------------------------
\* The application store (useAppStore), the handlers of App, and the history
\* database of lib/db.ts

rice == <<"r", "i", "c", "e">>

\* the image handed to capturePhoto
Images == {[dataUrl |-> "data:image/jpeg;base64"]}

\* query.replace(/\s+/g, '_')
RECURSIVE replaceWhiteSpace(_)
replaceWhiteSpace(s) ==
  IF s = << >> THEN << >>
  ELSE IF Head(s) \in WhiteSpace
       THEN (IF Len(s) > 1 /\ s[2] \in WhiteSpace
             THEN replaceWhiteSpace(Tail(s))
             ELSE <<"_">> \o replaceWhiteSpace(Tail(s)))
       ELSE <<Head(s)>> \o replaceWhiteSpace(Tail(s))

\* LABEL_MAP: the entries of the labels predictFood looks up; 'pasta' has
\* none
LABEL_MAP == <<
  [key |-> <<"h", "a", "m", "b", "u", "r", "g", "e", "r">>,
   value |-> <<"H", "a", "m", "b", "u", "r", "g", "e", "r">>],
  [key |-> <<"p", "i", "z", "z", "a">>,
   value |-> <<"P", "i", "z", "z", "a">>] >>

\* the predictions predictFood maps to foods, confidence in thousandths
mockPredictions == <<
  [label |-> <<"p", "i", "z", "z", "a">>, confidence |-> 850],
  [label |-> <<"h", "a", "m", "b", "u", "r", "g", "e", "r">>, confidence |-> 720],
  [label |-> <<"p", "a", "s", "t", "a">>, confidence |-> 680] >>

\* results.sort((a, b) => b.confidence - a.confidence): by insertion, which
\* keeps the order of equal confidences
RECURSIVE sortByConfidence(_)
sortByConfidence(results) ==
  IF results = << >> THEN << >>
  ELSE LET rest == sortByConfidence(Tail(results))
           before == {k \in 1..Len(rest) : rest[k].confidence > Head(results).confidence}
       IN  SubSeq(rest, 1, Cardinality(before)) \o <<Head(results)>>
             \o SubSeq(rest, Cardinality(before) + 1, Len(rest))

\* what predictFood resolves with: the mock predictions that have a display
\* name, by falling confidence, three at most
predictFood(img) ==
  LET hasName(pred) == \E k \in 1..Len(LABEL_MAP) : LABEL_MAP[k].key = pred.label
      name(pred) == LABEL_MAP[CHOOSE k \in 1..Len(LABEL_MAP) : LABEL_MAP[k].key = pred.label].value
      named == SelectSeq(mockPredictions, hasName)
      results == [k \in 1..Len(named) |->
                    [label |-> named[k].label, confidence |-> named[k].confidence,
                     displayName |-> name(named[k])]]
      sorted == sortByConfidence(results)
  IN  SubSeq(sorted, 1, IF Len(sorted) < 3 THEN Len(sorted) ELSE 3)

\* the messages of the Errors predictFood throws
PredictFailures ==
  {Message("Failed to load AI model. Please check your internet connection and try again."),
   Message("Model not loaded"),
   Message("Failed to analyze image. Please try again.")}

\* the food handleManualSearch makes of the query
mockFood(query) ==
  [label |-> replaceWhiteSpace(toLowerCase(query)), confidence |-> 500,
   displayName |-> query]

\* what can be typed into the manual search
ManualQueries == {rice}

\* the value of a decimal digit
digitValue(c) == CHOOSE i \in 0..9 : DecimalDigits[i + 1] = c

\* the order of string keys in IndexedDB: by character, a prefix first
RECURSIVE keyLess(_, _)
keyLess(a, b) ==
  IF b = << >> THEN FALSE
  ELSE IF a = << >> THEN TRUE
  ELSE IF Head(a) # Head(b) THEN digitValue(Head(a)) < digitValue(Head(b))
  ELSE keyLess(Tail(a), Tail(b))

\* db.getAllFromIndex('history', 'by-timestamp'): by timestamp, then by key
RECURSIVE getAllFromIndex(_)
getAllFromIndex(store) ==
  IF store = {} THEN << >>
  ELSE LET first == CHOOSE e \in store : \A x \in store \ {e} :
                       \/ e.timestamp < x.timestamp
                       \/ e.timestamp = x.timestamp /\ keyLess(e.id, x.id)
       IN  <<first>> \o getAllFromIndex(store \ {first})

\* entries.sort((a, b) => a.timestamp - b.timestamp): oldest first
RECURSIVE sortByTimestamp_Ascending(_)
sortByTimestamp_Ascending(es) ==
  IF es = << >> THEN << >>
  ELSE LET i == SetMin({j \in 1..Len(es) :
                          \A k \in 1..Len(es) : es[j].timestamp <= es[k].timestamp})
       IN  <<es[i]>> \o sortByTimestamp_Ascending(
                          SubSeq(es, 1, i - 1) \o SubSeq(es, i + 1, Len(es)))

\* entries.sort((a, b) => b.timestamp - a.timestamp): newest first, entries
\* of one timestamp in the order they had (Array.prototype.sort is stable)
RECURSIVE sortByTimestamp(_)
sortByTimestamp(es) ==
  IF es = << >> THEN << >>
  ELSE LET i == SetMin({j \in 1..Len(es) :
                          \A k \in 1..Len(es) : es[j].timestamp >= es[k].timestamp})
       IN  <<es[i]>> \o sortByTimestamp(
                          SubSeq(es, 1, i - 1) \o SubSeq(es, i + 1, Len(es)))

\* getHistoryEntries, when the read succeeds
getHistoryEntries(store) == sortByTimestamp(getAllFromIndex(store))

\* db.put('history', entry): the store is keyed by id (keyPath: 'id'), an
\* entry under the same key is replaced
put(store, entry) == {e \in store : e.id # entry.id} \cup {entry}

\* db.delete('history', id)
delete(store, id) == {e \in store : e.id # id}

\* the entry saveToHistory builds: Date.now() is read twice, for the id at
\* time t1 and for the timestamp at time t2
historyEntry(t1, t2) ==
  [id |-> digits(t1),
   timestamp |-> t2,
   label |-> selectedFood.label,
   displayName |-> selectedFood.displayName,
   grams |-> portionData.grams,
   servings |-> portionData.servings,
   kcal |-> calculateCalories(nutritionData, portionData.grams.v),
   macros |-> calculateMacros(nutritionData, portionData.grams.v),
   thumbDataUrl |-> capturedImage,
   confidence |-> selectedFood.confidence]

\* what the store actions leave alone
outsideStore ==
  <<resolverVars, grams, calories, macros, pickerVars, exportVars, notifyVars,
    modelVars>>

\* an asynchronous call of the photo flow that has not settled: what was
\* called, the screen it was started from, its argument, and whether the
\* CameraCapture that made it has been unmounted
Task(kind, screen, arg) == [kind |-> kind, screen |-> screen, arg |-> arg, detached |-> FALSE]

\* the tasks without the i-th
RemoveAt(s, i) == SubSeq(s, 1, i - 1) \o SubSeq(s, i + 1, Len(s))

\* CameraCapture is unmounted: its state setters no longer do anything
unmount(ts) ==
  [k \in 1..Len(ts) |->
     IF ts[k].kind \in {"getUserMedia", "readAsDataURL"}
     THEN [ts[k] EXCEPT !.detached = TRUE]
     ELSE ts[k]]

\* the buttons that only change the screen
NavButtons ==
  {<<"landing", "camera">>, <<"landing", "history">>, <<"landing", "settings">>,
   <<"camera", "landing">>, <<"history", "landing">>, <<"settings", "landing">>}

\* setCurrentScreen(screen) by a button of the current screen.  The overlay
\* shown while isLoading covers the screen for the pointer only; the buttons
\* under it still take the keyboard.
SetCurrentScreen ==
  /\ \E b \in NavButtons : currentScreen = b[1] /\ currentScreen' = b[2]
  /\ camera' = CameraIdle
  /\ tasks' = unmount(tasks)
  /\ UNCHANGED <<capturedImage, predictions, selectedFood, history, isLoading,
                 error, db, now, dbQueue, lastRequest, nutritionData>>
  /\ UNCHANGED outsideStore

\* the button View Results of the portion screen
ViewResults ==
  /\ currentScreen = "portion"
  /\ nutritionData # Null
  /\ currentScreen' = "result"
  /\ UNCHANGED <<capturedImage, predictions, selectedFood, history, isLoading,
                 error, db, now, dbQueue, tasks, lastRequest, nutritionData, camera>>
  /\ UNCHANGED outsideStore

\* handleBack
HandleBack ==
  /\ currentScreen \in {"suggestions", "portion", "result"}
  /\ currentScreen' = (IF currentScreen = "suggestions" THEN "camera"
                       ELSE IF currentScreen = "portion" THEN "suggestions"
                       ELSE "portion")
  /\ UNCHANGED <<capturedImage, predictions, selectedFood, history, isLoading,
                 error, db, now, dbQueue, tasks, lastRequest, nutritionData, camera>>
  /\ UNCHANGED outsideStore

\* setError(null) by the button of the error toast
DismissError ==
  /\ error # Null
  /\ error' = Null
  /\ UNCHANGED <<currentScreen, capturedImage, predictions, selectedFood, history,
                 isLoading, db, now, dbQueue, tasks, lastRequest, nutritionData, camera>>
  /\ UNCHANGED outsideStore

\* time passes
Tick ==
  /\ now < MaxNow
  /\ now' = now + 1
  /\ UNCHANGED <<currentScreen, capturedImage, predictions, selectedFood, history,
                 isLoading, error, db, dbQueue, tasks, lastRequest, nutritionData, camera>>
  /\ UNCHANGED outsideStore

\* startCamera up to await getUserMedia, by the button Open Camera
StartCamera ==
  /\ currentScreen = "camera"
  /\ ~camera.stream
  /\ ~camera.isCapturing
  /\ Len(tasks) < MaxInFlight
  /\ tasks' = Append(tasks, Task("getUserMedia", currentScreen, << >>))
  /\ UNCHANGED <<currentScreen, capturedImage, predictions, selectedFood, history,
                 isLoading, error, db, now, dbQueue, lastRequest, nutritionData, camera>>
  /\ UNCHANGED outsideStore

\* startCamera after await getUserMedia: the stream, or onError with the
\* message of the denied permission
GetUserMediaSettles ==
  \E i \in 1..Len(tasks) :
    /\ tasks[i].kind = "getUserMedia"
    /\ tasks' = RemoveAt(tasks, i)
    /\ \/ /\ camera' = (IF tasks[i].detached THEN camera
                        ELSE [camera EXCEPT !.stream = TRUE])
          /\ UNCHANGED error
       \/ /\ error' = Message("Camera access denied. Please allow camera permissions or use file upload.")
          /\ UNCHANGED camera
    /\ UNCHANGED <<currentScreen, capturedImage, predictions, selectedFood, history,
                   isLoading, db, now, dbQueue, lastRequest, nutritionData>>
    /\ UNCHANGED outsideStore

\* stopCamera by its button
StopCamera ==
  /\ currentScreen = "camera"
  /\ camera.stream
  /\ camera' = [camera EXCEPT !.stream = FALSE]
  /\ UNCHANGED <<currentScreen, capturedImage, predictions, selectedFood, history,
                 isLoading, error, db, now, dbQueue, tasks, lastRequest, nutritionData>>
  /\ UNCHANGED outsideStore

\* capturePhoto(imageDataUrl) of the store up to img.src = imageDataUrl,
\* with ts the tasks that stay
capturePhoto(imageDataUrl, ts) ==
  /\ capturedImage' = imageDataUrl
  /\ isLoading' = TRUE
  /\ error' = Null
  /\ tasks' = Append(ts, Task("imageLoad", "camera", <<imageDataUrl>>))

\* capturePhoto of CameraCapture by the button Capture: the frame of the
\* video goes to onCapture and the camera stops
CapturePhoto ==
  /\ currentScreen = "camera"
  /\ camera.stream
  /\ ~camera.isCapturing
  /\ Len(tasks) < MaxInFlight
  /\ \E imageDataUrl \in Images : capturePhoto(imageDataUrl, tasks)
  /\ camera' = [stream |-> FALSE, isCapturing |-> TRUE]
  /\ UNCHANGED <<currentScreen, predictions, selectedFood, history, db, now,
                 dbQueue, lastRequest, nutritionData>>
  /\ UNCHANGED outsideStore

\* handleFileUpload up to reader.readAsDataURL(file), by the button Upload
\* Photo
HandleFileUpload ==
  /\ currentScreen = "camera"
  /\ ~camera.stream
  /\ ~camera.isCapturing
  /\ Len(tasks) < MaxInFlight
  /\ \E file \in Images : tasks' = Append(tasks, Task("readAsDataURL", currentScreen, <<file>>))
  /\ UNCHANGED <<currentScreen, capturedImage, predictions, selectedFood, history,
                 isLoading, error, db, now, dbQueue, lastRequest, nutritionData, camera>>
  /\ UNCHANGED outsideStore

\* the FileReader settles: reader.onload sets isCapturing and hands the
\* result to onCapture; no handler is set for a failed read
FileReaderSettles ==
  \E i \in 1..Len(tasks) :
    /\ tasks[i].kind = "readAsDataURL"
    /\ \/ /\ capturePhoto(tasks[i].arg[1], RemoveAt(tasks, i))
          /\ camera' = (IF tasks[i].detached THEN camera
                        ELSE [camera EXCEPT !.isCapturing = TRUE])
       \/ /\ tasks' = RemoveAt(tasks, i)
          /\ UNCHANGED <<capturedImage, isLoading, error, camera>>
    /\ UNCHANGED <<currentScreen, predictions, selectedFood, history, db, now,
                   dbQueue, lastRequest, nutritionData>>
    /\ UNCHANGED outsideStore

\* the Image of capturePhoto settles: img.onload calls predictFood; no
\* handler is set for an image that does not decode
ImageSettles ==
  \E i \in 1..Len(tasks) :
    /\ tasks[i].kind = "imageLoad"
    /\ \/ tasks' = Append(RemoveAt(tasks, i), Task("predictFood", tasks[i].screen, tasks[i].arg))
       \/ tasks' = RemoveAt(tasks, i)
    /\ UNCHANGED <<currentScreen, capturedImage, predictions, selectedFood, history,
                   isLoading, error, db, now, dbQueue, lastRequest, nutritionData, camera>>
    /\ UNCHANGED outsideStore

\* img.onload after await predictFood(img): the predictions and the
\* suggestions screen, or the message of the Error
PredictFoodSettles ==
  \E i \in 1..Len(tasks) :
    /\ tasks[i].kind = "predictFood"
    /\ \/ /\ predictions' = predictFood(tasks[i].arg[1])
          /\ currentScreen' = "suggestions"
          /\ isLoading' = FALSE
          /\ camera' = CameraIdle
          /\ tasks' = unmount(RemoveAt(tasks, i))
          /\ UNCHANGED error
       \/ /\ error' \in PredictFailures
          /\ isLoading' = FALSE
          /\ tasks' = RemoveAt(tasks, i)
          /\ UNCHANGED <<predictions, currentScreen, camera>>
    /\ UNCHANGED <<capturedImage, selectedFood, history, db, now, dbQueue,
                   lastRequest, nutritionData>>
    /\ UNCHANGED outsideStore

\* selectFood(food) and getNutritionData(food.displayName) up to the call of
\* getNutrition
selectAndGetNutrition(food) ==
  /\ selectedFood' = food
  /\ currentScreen' = "portion"
  /\ isLoading' = TRUE
  /\ error' = Null
  /\ tasks' = Append(tasks, Task("getNutrition", "portion", food.displayName))
  /\ UNCHANGED <<capturedImage, predictions, history, db, now, dbQueue,
                 lastRequest, nutritionData, camera>>
  /\ UNCHANGED outsideStore

\* handleSelectFood(food) for one of the predictions
HandleSelectFood ==
  /\ currentScreen = "suggestions"
  /\ ~isLoading
  /\ Len(tasks) < MaxInFlight
  /\ \E i \in 1..Len(predictions) : selectAndGetNutrition(predictions[i])

\* handleManualSearch(query)
HandleManualSearch ==
  /\ currentScreen = "suggestions"
  /\ ~isLoading
  /\ Len(tasks) < MaxInFlight
  /\ \E query \in ManualQueries : selectAndGetNutrition(mockFood(query))

\* getNutritionData after await getNutrition(foodName); no credentials are
\* set (defaultSettings), the record is the one of the local table
GetNutritionSettles ==
  \E i \in 1..Len(tasks) :
    /\ tasks[i].kind = "getNutrition"
    /\ tasks' = RemoveAt(tasks, i)
    /\ nutritionData' = getNutritionFromLocal(tasks[i].arg)
    /\ isLoading' = FALSE
    /\ UNCHANGED <<currentScreen, capturedImage, predictions, selectedFood, history,
                   error, db, now, dbQueue, lastRequest, camera>>
    /\ UNCHANGED outsideStore

\* saveToHistory up to await db.put
SaveToHistory ==
  /\ Len(dbQueue) < MaxDbQueue
  /\ IF selectedFood = Null \/ nutritionData = Null \/ capturedImage = Null
     THEN UNCHANGED <<dbQueue, now>>
     ELSE \E t2 \in {now, now + 1} :
            /\ t2 <= MaxNow
            /\ now' = t2
            /\ dbQueue' = Append(dbQueue, Request("put", historyEntry(now, t2), "saveToHistory"))
  /\ UNCHANGED <<currentScreen, capturedImage, predictions, selectedFood, history,
                 isLoading, error, db, tasks, lastRequest, nutritionData, camera>>
  /\ UNCHANGED outsideStore

\* deleteHistoryEntry(id) up to await db.delete, for the id of an entry of
\* the list
DeleteHistoryEntry ==
  /\ Len(dbQueue) < MaxDbQueue
  /\ \E i \in 1..Len(history) :
       dbQueue' = Append(dbQueue, Request("delete", history[i].id, "deleteHistoryEntry"))
  /\ UNCHANGED <<currentScreen, capturedImage, predictions, selectedFood, history,
                 isLoading, error, db, now, tasks, lastRequest, nutritionData, camera>>
  /\ UNCHANGED outsideStore

\* clearAllHistory up to await db.clear
ClearAllHistory ==
  /\ Len(dbQueue) < MaxDbQueue
  /\ dbQueue' = Append(dbQueue, Request("clear", << >>, "clearAllHistory"))
  /\ UNCHANGED <<currentScreen, capturedImage, predictions, selectedFood, history,
                 isLoading, error, db, now, tasks, lastRequest, nutritionData, camera>>
  /\ UNCHANGED outsideStore

\* the catch blocks of the store keep no message
dbErrorMessage_Swallowed(req) == Null

\* the message of the Error that lib/db.ts throws when a request fails
dbErrorMessage(req) ==
  CASE req = "put" -> Message("Failed to save entry to history")
    [] req = "getAll" -> Message("Failed to load history")
    [] req = "delete" -> Message("Failed to delete entry")
    [] req = "clear" -> Message("Failed to clear history")

\* The oldest request of the database settles (transactions on one object
\* store run in the order they were made) and the store action that awaits
\* it runs to its next await or to its end.
DbRequestSettles ==
  /\ dbQueue # << >>
  /\ LET r == Head(dbQueue)
         rest == Tail(dbQueue)
     IN  \E outcome \in {"ok", "error"} :
           /\ lastRequest' = [req |-> r.req, outcome |-> outcome,
                              before |-> IF r.req = "put" THEN db ELSE {}]
           /\ IF outcome = "error"
              THEN /\ dbQueue' = rest
                   /\ error' = (IF r.op = "loadHistory" THEN error
                                ELSE dbErrorMessage(r.req))
                   /\ UNCHANGED <<db, history, currentScreen>>
              ELSE CASE r.req = "put" ->
                          /\ db' = put(db, r.arg)
                          /\ dbQueue' = Append(rest, Request("getAll", << >>, r.op))
                          /\ UNCHANGED <<history, currentScreen, error>>
                     [] r.req = "delete" ->
                          /\ db' = delete(db, r.arg)
                          /\ dbQueue' = Append(rest, Request("getAll", << >>, r.op))
                          /\ UNCHANGED <<history, currentScreen, error>>
                     [] r.req = "clear" ->
                          /\ db' = {}
                          /\ history' = << >>
                          /\ dbQueue' = rest
                          /\ UNCHANGED <<currentScreen, error>>
                     [] r.req = "getAll" ->
                          /\ history' = getHistoryEntries(db)
                          /\ currentScreen' = (IF r.op = "saveToHistory" THEN "history"
                                               ELSE currentScreen)
                          /\ dbQueue' = rest
                          /\ UNCHANGED <<db, error>>
  /\ camera' = (IF currentScreen' = "camera" THEN camera ELSE CameraIdle)
  /\ tasks' = (IF currentScreen' = "camera" THEN tasks ELSE unmount(tasks))
  /\ UNCHANGED <<capturedImage, predictions, selectedFood, isLoading, now,
                 nutritionData>>
  /\ UNCHANGED outsideStore

\* what is null outside the flow from the photo to the result
FlowIdle ==
  /\ foodName = << >>
  /\ env = [VITE_NUTRITIONIX_APP_ID |-> FALSE, VITE_NUTRITIONIX_API_KEY |-> FALSE,
            VITE_CALORIE_NINJAS_KEY |-> FALSE]
  /\ ResolverIdle
  /\ grams = 0
  /\ calories = Undefined
  /\ macros = NoMacros
  /\ PickerIdle
  /\ ExportIdle

\* the store as created
InitFlow ==
  /\ FlowIdle
  /\ nutritionData = Null
  /\ StoreIdle
  /\ NotifyIdle
  /\ ModelIdle

NextFlow ==
  \/ SetCurrentScreen
  \/ ViewResults
  \/ HandleBack
  \/ DismissError
  \/ StartCamera
  \/ GetUserMediaSettles
  \/ StopCamera
  \/ CapturePhoto
  \/ HandleFileUpload
  \/ FileReaderSettles
  \/ ImageSettles
  \/ PredictFoodSettles
  \/ HandleSelectFood
  \/ HandleManualSearch
  \/ GetNutritionSettles

SpecFlow == InitFlow /\ [][NextFlow]_vars

\* the foods a result can be shown for
SelectableFoods == {predictFood(img)[1] : img \in Images} \cup {mockFood(q) : q \in ManualQueries}

\* the result screen of a food, or the store before a photo was taken; the
\* database open and empty, and loadHistory of the mount effect waiting for
\* its read
InitHistory ==
  /\ FlowIdle
  /\ \/ /\ currentScreen = "result"
        /\ capturedImage \in Images
        /\ selectedFood \in SelectableFoods
        /\ nutritionData = getNutritionFromLocal(selectedFood.displayName)
        /\ predictions \in {predictFood(capturedImage)}
     \/ /\ currentScreen = "landing"
        /\ capturedImage = Null
        /\ selectedFood = Null
        /\ nutritionData = Null
        /\ predictions = << >>
  /\ history = << >>
  /\ isLoading = FALSE
  /\ error = Null
  /\ db = {}
  /\ now = 0
  /\ dbQueue = <<Request("getAll", << >>, "loadHistory")>>
  /\ tasks = << >>
  /\ lastRequest = NoRequest
  /\ camera = CameraIdle
  /\ NotifyIdle
  /\ ModelIdle

NextHistory ==
  \/ Tick
  \/ SaveToHistory
  \/ DeleteHistoryEntry
  \/ ClearAllHistory
  \/ DbRequestSettles

SpecHistory == InitHistory /\ [][NextHistory]_vars

-----------------------------------------------------------------------------
\* The portion screen: the effect of PortionPicker, the callback App hands
\* to it, and the subscription of App to the store

\* the dependencies [portion, onPortionChange] of the effect now
currentDeps == [portion |-> portion, onPortionChange |-> onPortionChange]

\* the effect has to run: after the mount, or when a dependency differs
\* from the one it last ran with
EffectPending == effectDeps # currentDeps

\* the callback receives a portion other than the one of the picker
PortionEffect_InitialPortion ==
  /\ EffectPending
  /\ effectDeps' = currentDeps
  /\ portionData' = InitialPortion
  /\ renderPending' = TRUE
  /\ UNCHANGED onPortionChange
  /\ UNCHANGED <<resolverVars, calcVars, pickerVars, exportVars, storeVars, modelVars>>

\* useEffect(() => { onPortionChange(portion) }, [portion, onPortionChange])
\* with onPortionChange = portion => useAppStore.setState({ portionData:
\* portion }): setState merges the partial state into a new state object and
\* calls the subscribers, of which App, which reads the whole state, is one
PortionEffect ==
  /\ EffectPending
  /\ effectDeps' = currentDeps
  /\ portionData' = portion
  /\ renderPending' = TRUE
  /\ UNCHANGED onPortionChange
  /\ UNCHANGED <<resolverVars, calcVars, pickerVars, exportVars, storeVars, modelVars>>

\* App renders again after a change of the store: the arrow function it
\* passes as onPortionChange is a new one, other than that of the render
\* before
AppRender ==
  /\ renderPending
  /\ renderPending' = FALSE
  /\ onPortionChange' = 1 - onPortionChange
  /\ UNCHANGED <<portionData, effectDeps>>
  /\ UNCHANGED <<resolverVars, calcVars, pickerVars, exportVars, storeVars, modelVars>>

\* the portion screen as shown first: PortionPicker mounted with the
\* portion of the store as its state, its effect yet to run
InitNotify ==
  /\ FlowIdle
  /\ nutritionData = Null
  /\ StoreIdle
  /\ NotifyIdle
  /\ ModelIdle

\* a click on a mode tab, a preset or a step button.  React runs the effect
\* of the render a click caused before it handles the next click.
PickerClick ==
  /\ ~EffectPending
  /\ (SetActiveMode \/ PresetClick \/ MinusClick \/ PlusClick)

NextNotify ==
  \/ PickerClick
  \/ PortionEffect
  \/ AppRender

SpecNotify == InitNotify /\ [][NextNotify]_vars

\* the effect and the render of App are not put off for ever
SpecNotifyFair ==
  SpecNotify /\ WF_vars(PortionEffect) /\ WF_vars(AppRender)

-----------------------------------------------------------------------------
\* lib/tfModel.ts: loadModel and predictFood with its module variables

\* what the other modules leave alone
outsideModel ==
  <<resolverVars, calcVars, pickerVars, exportVars, storeVars, notifyVars>>

\* the model tf.loadLayersModel resolves with
LayersModel == [kind |-> "LayersModel"]

\* a call of predictFood: where it stands, how it ended, and the call whose
\* load was in progress when its loadModel returned at once (0: none)
PredictCall(at, during) == [pc |-> at, outcome |-> "pending", during |-> during]

\* the call that awaits tf.loadLayersModel
Loader == CHOOSE i \in 1..Len(predictCalls) : predictCalls[i].pc = "loadLayersModel"

\* predictFood(imageElement) up to its first await: of loadModel when there
\* is no model, which starts the load unless one is in progress, else of
\* predictions.data()
PredictFoodCalled ==
  /\ Len(predictCalls) < MaxPredictCalls
  /\ IF model # Null
     THEN /\ predictCalls' = Append(predictCalls, PredictCall("predict", 0))
          /\ UNCHANGED isModelLoading
     ELSE IF isModelLoading
     THEN /\ predictCalls' = Append(predictCalls, PredictCall("loadModelReturned", Loader))
          /\ UNCHANGED isModelLoading
     ELSE /\ predictCalls' = Append(predictCalls, PredictCall("loadLayersModel", 0))
          /\ isModelLoading' = TRUE
  /\ UNCHANGED model
  /\ UNCHANGED outsideModel

\* tf.loadLayersModel settles: the model is set and predictFood goes on to
\* predict, or loadModel throws; isModelLoading is reset either way
LoadLayersModelSettles ==
  \E i \in 1..Len(predictCalls) :
    /\ predictCalls[i].pc = "loadLayersModel"
    /\ isModelLoading' = FALSE
    /\ \/ /\ model' = LayersModel
          /\ predictCalls' = [predictCalls EXCEPT ![i].pc = "predict"]
       \/ /\ predictCalls' = [predictCalls EXCEPT
                                ![i].pc = "done",
                                ![i].outcome = "Failed to load AI model. Please check your internet connection and try again."]
          /\ UNCHANGED model
    /\ UNCHANGED outsideModel

\* predictFood after an await loadModel() that returned at once:
\* if (!model) throw new Error('Model not loaded')
LoadModelReturned ==
  \E i \in 1..Len(predictCalls) :
    /\ predictCalls[i].pc = "loadModelReturned"
    /\ predictCalls' = (IF model = Null
                        THEN [predictCalls EXCEPT ![i].pc = "done",
                                                  ![i].outcome = "Model not loaded"]
                        ELSE [predictCalls EXCEPT ![i].pc = "predict"])
    /\ UNCHANGED <<model, isModelLoading>>
    /\ UNCHANGED outsideModel

\* predictions.data() settles: the results, or the error of the catch
PredictSettles ==
  \E i \in 1..Len(predictCalls) :
    /\ predictCalls[i].pc = "predict"
    /\ \E outcome \in {"results", "Failed to analyze image. Please try again."} :
         predictCalls' = [predictCalls EXCEPT ![i].pc = "done", ![i].outcome = outcome]
    /\ UNCHANGED <<model, isModelLoading>>
    /\ UNCHANGED outsideModel

\* the module as loaded, no call made
InitModel ==
  /\ FlowIdle
  /\ nutritionData = Null
  /\ StoreIdle
  /\ NotifyIdle
  /\ ModelIdle

NextModel ==
  \/ PredictFoodCalled
  \/ LoadLayersModelSettles
  \/ LoadModelReturned
  \/ PredictSettles

SpecModel == InitModel /\ [][NextModel]_vars

----------------------------------------------------------------------------
\* Properties of getNutrition

Settled(t) == t \in {"succeeded"} \cup FailureReasons
LastCall == calls[Len(calls)]
ReadTable == pc = "done" /\ LastCall = "local"
TableRecord(i) == LOCAL_FOOD_DB[i].value

TierRank(t) ==
  CASE t = "nutritionix" -> 1
    [] t = "calorieninjas" -> 2
    [] t = "local" -> 3

\* C1: getNutrition never fails: for every food name, every set of
\* credentials and every way the provider calls end (network error, status
\* outside 200..299, body that does not parse, missing or empty list), no
\* exception leaves the call, and the call that is done has returned a value.
C1_NeverFails ==
  /\ pc # "threw"
  /\ pc = "done" => result # NoResult

\* both providers were asked and both failed, each in its own way
C1_Witness ==
  /\ pc = "done"
  /\ nxOutcome = "unparsable"
  /\ cnOutcome = "rejected"
  /\ result = DefaultRecord

\* C2: the tiers are consulted one after the other in the order Nutritionix,
\* CalorieNinjas, table; a tier is consulted only when every earlier tier
\* consulted has failed, so nothing is consulted after a success; at most one
\* provider request is in flight.
C2_SequentialShortCircuit ==
  /\ \A i, j \in 1..Len(calls) :
       i < j => TierRank(calls[i]) < TierRank(calls[j])
  /\ Cardinality(inflight) <= 1
  /\ nxOutcome = "succeeded" => calls = <<"nutritionix">>
  /\ cnOutcome = "succeeded" => LastCall = "calorieninjas"
  /\ (\E i \in 1..Len(calls) : calls[i] = "calorieninjas") =>
       nxOutcome = "notCalled" \/ Failed(nxOutcome)
  /\ (\E i \in 1..Len(calls) : calls[i] = "local") =>
       /\ nxOutcome = "notCalled" \/ Failed(nxOutcome)
       /\ cnOutcome = "notCalled" \/ Failed(cnOutcome)

\* Nutritionix succeeded while the CalorieNinjas key was set, and
\* CalorieNinjas was not asked
C2_Witness ==
  /\ pc = "done"
  /\ nxOutcome = "succeeded"
  /\ env.VITE_CALORIE_NINJAS_KEY
  /\ cnOutcome = "notCalled"
  /\ calls = <<"nutritionix">>

\* C3: a tier that is not configured or fails hands over to the next, and the
\* source of the record names the tier it came from: when Nutritionix is
\* not configured or failed and CalorieNinjas is configured and succeeded the
\* record is the rounded CalorieNinjas item with source calorieninjas; the
\* source is local exactly when each provider was not configured or failed.
C3_SourceNamesTier ==
  pc = "done" =>
    /\ nxOutcome = "notCalled" <=>
         ~(env.VITE_NUTRITIONIX_APP_ID /\ env.VITE_NUTRITIONIX_API_KEY)
    /\ (nxOutcome # "succeeded" /\ cnOutcome = "notCalled") <=>
         (nxOutcome # "succeeded" /\ ~env.VITE_CALORIE_NINJAS_KEY)
    /\ (nxOutcome # "succeeded" /\ cnOutcome = "succeeded") =>
         /\ result.source = "calorieninjas"
         /\ IsNumber(cnFood.calories) =>
              result.kcalPer100g = Num(MathRound(cnFood.calories.v, 100))
         /\ IsNumber(cnFood.protein_g) =>
              result.protein = Num(MathRound(cnFood.protein_g.v, 10))
         /\ IsNumber(cnFood.carbohydrates_total_g) =>
              result.carbs = Num(MathRound(cnFood.carbohydrates_total_g.v, 10))
         /\ IsNumber(cnFood.fat_total_g) =>
              result.fat = Num(MathRound(cnFood.fat_total_g.v, 10))
    /\ result.source = "local" <=>
         /\ nxOutcome = "notCalled" \/ Failed(nxOutcome)
         /\ cnOutcome = "notCalled" \/ Failed(cnOutcome)

\* C4: the value getNutrition returns is a fully populated record: its source
\* is one of the three tiers and kcalPer100g, protein, carbs and fat are
\* numbers that are at least 0, never undefined and never NaN.
Populated(x) == x.kind \in {"number", "Infinity"} /\ x.v >= 0
C4_FullyPopulated ==
  pc = "done" =>
    /\ result.source \in {"nutritionix", "calorieninjas", "local"}
    /\ Populated(result.kcalPer100g)
    /\ Populated(result.protein)
    /\ Populated(result.carbs)
    /\ Populated(result.fat)

C5_WitnessTie ==
  /\ pc = "done"
  /\ nxFood.nf_calories = Num(12500)
  /\ nxFood.serving_weight_grams = Num(20000)
  /\ result.kcalPer100g = Num(63)

\* C6: protein, carbs and fat of a returned record are grams per 100 g: for a
\* Nutritionix item with a serving weight of w grams each is the item's
\* per-serving quantity times 100 / w, rounded to one decimal.
C6_MacrosPer100g ==
  (pc = "done" /\ nxOutcome = "succeeded") =>
    LET w == nxFood.serving_weight_grams
        Per100g(x) == Num(MathRound(1000 * x.v, w.v))
    IN  (IsNumber(w) /\ w.v > 0) =>
          /\ IsNumber(nxFood.nf_protein) =>
               result.protein = Per100g(nxFood.nf_protein)
          /\ IsNumber(nxFood.nf_total_carbohydrate) =>
               result.carbs = Per100g(nxFood.nf_total_carbohydrate)
          /\ IsNumber(nxFood.nf_total_fat) =>
               result.fat = Per100g(nxFood.nf_total_fat)

\* C7: the table lookup ignores case and surrounding white space: the record
\* read for a name is the record read for lowercase(trim(name)); " Apple "
\* gives the record of "apple".
C7_LookupNormalized ==
  ReadTable =>
    /\ result = getNutritionFromLocal(toLowerCase(trim(foodName)))
    /\ foodName = <<" ", "A", "p", "p", "l", "e", " ">> =>
         result = getNutritionFromLocal(<<"a", "p", "p", "l", "e">>)

C7_Witness ==
  /\ ReadTable
  /\ foodName = <<" ", "A", "p", "p", "l", "e", " ">>
  /\ result = TableRecord(1)

\* a name with white space that hides a partial match unless it is trimmed
C7_WitnessPartial ==
  /\ ReadTable
  /\ foodName = <<" ", "E", "g">>
  /\ result = TableRecord(9)

\* C8: a normalized name equal to a key gets that key's record; otherwise,
\* when some key contains the name or the name contains some key, it gets
\* the record of the first such key in table order.  With no credentials
\* "apple" gives {52, 0.3, 14, 0.2, local}.
C8_LookupOrder ==
  ReadTable =>
    LET n == trim(toLowerCase(foodName))
        keys == 1..Len(LOCAL_FOOD_DB)
        exact == {i \in keys : LOCAL_FOOD_DB[i].key = n}
        partial == {i \in keys : \/ includes(LOCAL_FOOD_DB[i].key, n)
                                 \/ includes(n, LOCAL_FOOD_DB[i].key)}
    IN  /\ \A i \in exact : result = TableRecord(i)
        /\ (exact = {} /\ partial # {}) =>
             \E i \in partial : /\ result = TableRecord(i)
                                /\ \A j \in partial : i <= j
        /\ foodName = <<"a", "p", "p", "l", "e">> =>
             result = [kcalPer100g |-> Num(52), protein |-> Num(3),
                       carbs |-> Num(140), fat |-> Num(2), source |-> "local"]

\* a name that contains two keys gets the record of the earlier one
C8_Witness ==
  /\ ReadTable
  /\ foodName = <<"r", "i", "c", "e", " ", "a", "n", "d", " ", "p", "a", "s", "t", "a">>
  /\ result = TableRecord(3)

\* C9: the default record {200, 10, 20, 8, local} is returned when no
\* provider produced a record and the normalized name neither equals,
\* contains nor is contained in a key of the table, and in no other case.
C9_DefaultRecord ==
  pc = "done" =>
    LET n == trim(toLowerCase(foodName))
        noMatch == \A i \in 1..Len(LOCAL_FOOD_DB) :
                     /\ LOCAL_FOOD_DB[i].key # n
                     /\ ~includes(LOCAL_FOOD_DB[i].key, n)
                     /\ ~includes(n, LOCAL_FOOD_DB[i].key)
    IN  (nxOutcome # "succeeded" /\ cnOutcome # "succeeded" /\ noMatch) <=>
          result = [kcalPer100g |-> Num(200), protein |-> Num(100),
                    carbs |-> Num(200), fat |-> Num(80), source |-> "local"]

----------------------------------------------------------------------------
\* Properties of the portion calculator

C11_CaloriesMonotone ==
  (calories # Undefined /\ grams \in 10..1000) =>
    /\ IsNumber(calories)
    /\ calories.v >= 0
    /\ \A g1 \in 10..grams :
         calculateCalories(nutritionData, g1).v <= calories.v

\* 52 kcal per 100 g: 5 at 10 g, 78 at 150 g
C11_Witness ==
  /\ nutritionData.kcalPer100g = Num(52)
  /\ grams = 150
  /\ calories = Num(78)
  /\ calculateCalories(nutritionData, 10) = Num(5)

\* the exact value field * grams / 100 rounded to one decimal, a tie going
\* up, in tenths
HalfUpTenths(x, g, r) ==
  /\ IsNumber(r)
  /\ 200 * r.v <= 2 * x.v * g + 100
  /\ 2 * x.v * g + 100 < 200 * (r.v + 1)

\* C12: calculateMacros returns, for protein, carbs and fat, the value
\* field * grams / 100 rounded to one decimal place, a tie going up: 10.7,
\* 20.3 and 5.8 at 150 g give 16.1, 30.5 and 8.7.
C12_MacrosHalfUp ==
  macros # NoMacros =>
    /\ HalfUpTenths(nutritionData.protein, grams, macros.protein)
    /\ HalfUpTenths(nutritionData.carbs, grams, macros.carbs)
    /\ HalfUpTenths(nutritionData.fat, grams, macros.fat)
    /\ (grams = 150 /\ nutritionData.protein = Num(107)
          /\ nutritionData.carbs = Num(203) /\ nutritionData.fat = Num(58)) =>
         macros = [protein |-> Num(161), carbs |-> Num(305), fat |-> Num(87)]

\* C13: at 100 g calculateMacros returns the macros of the record, for every
\* record whose macros have at most one decimal place.
C13_MacrosIdentityAt100 ==
  (macros # NoMacros /\ grams = 100) =>
    macros = [protein |-> nutritionData.protein, carbs |-> nutritionData.carbs,
              fat |-> nutritionData.fat]

C13_Witness ==
  /\ grams = 100
  /\ nutritionData.protein = Num(107)
  /\ macros = [protein |-> Num(107), carbs |-> Num(203), fat |-> Num(58)]

----------------------------------------------------------------------------
\* Properties of the portion picker

\* C14: after any sequence of edits, in either mode and for every input, the
\* portion is within both bounds: grams in [10, 1000] and servings in
\* [0.25, 3].
C14_PortionWithinBounds ==
  /\ IsNumber(portion.grams)
  /\ 10 <= portion.grams.v /\ portion.grams.v <= 1000
  /\ IsNumber(portion.servings)
  /\ 250 <= portion.servings.v /\ portion.servings.v <= 3000

C15_WitnessServings ==
  /\ edited = [field |-> "servings", value |-> Num(1000)]
  /\ portion = [servings |-> Num(1000), grams |-> Num(100)]
  /\ activeMode = "servings"

\* C29: in ounces the conversion round-trips on every value the picker
\* holds: the grams of the portion, shown in ounces and converted back, are
\* the grams of the portion.
C29_OunceRoundTrip ==
  (units = "oz" /\ IsNumber(portion.grams))
    => ozToGrams(gramsToOzTenths(portion.grams.v)) = portion.grams.v

----------------------------------------------------------------------------
\* Properties of exportToCSV

\* String.prototype.split by one character
RECURSIVE split(_, _)
split(s, sep) ==
  IF \A i \in 1..Len(s) : s[i] # sep THEN <<s>>
  ELSE LET i == SetMin({j \in 1..Len(s) : s[j] = sep})
       IN  <<SubSeq(s, 1, i - 1)>> \o split(SubSeq(s, i + 1, Len(s)), sep)

\* no record: the line is not well formed
Malformed == << >>

\* The fields of one CSV record: a field is either free of quotes or enclosed
\* in double quotes, inside which a double quote is written twice.
RECURSIVE csvScan(_, _, _, _, _)
csvScan(line, i, state, cur, fields) ==
  IF i > Len(line)
  THEN (IF state = "quoted" THEN Malformed ELSE Append(fields, cur))
  ELSE LET c == line[i]
       IN  CASE state = "start" /\ c = "\"" -> csvScan(line, i + 1, "quoted", cur, fields)
             [] state = "start" /\ c = "," -> csvScan(line, i + 1, "start", << >>, Append(fields, cur))
             [] state = "start" /\ c \notin {"\"", ","} -> csvScan(line, i + 1, "unquoted", Append(cur, c), fields)
             [] state = "unquoted" /\ c = "," -> csvScan(line, i + 1, "start", << >>, Append(fields, cur))
             [] state = "unquoted" /\ c = "\"" -> Malformed
             [] state = "unquoted" /\ c \notin {"\"", ","} -> csvScan(line, i + 1, "unquoted", Append(cur, c), fields)
             [] state = "quoted" /\ c = "\"" -> csvScan(line, i + 1, "closed", cur, fields)
             [] state = "quoted" /\ c # "\"" -> csvScan(line, i + 1, "quoted", Append(cur, c), fields)
             [] state = "closed" /\ c = "\"" -> csvScan(line, i + 1, "quoted", Append(cur, c), fields)
             [] state = "closed" /\ c = "," -> csvScan(line, i + 1, "start", << >>, Append(fields, cur))
             [] state = "closed" /\ c \notin {"\"", ","} -> Malformed

csvFields(line) == csvScan(line, 1, "start", << >>, << >>)

HeaderLine ==
  <<"D", "a", "t", "e", ",", "T", "i", "m", "e", ",", "F", "o", "o", "d", ",", "P", "o", "r", "t", "i", "o", "n", " ", "(", "g", ")", ",", "S", "e", "r", "v", "i", "n", "g", "s", ",", "C", "a", "l", "o", "r", "i", "e", "s", ",", "P", "r", "o", "t", "e", "i", "n", " ", "(", "g", ")", ",", "C", "a", "r", "b", "s", " ", "(", "g", ")", ",", "F", "a", "t", " ", "(", "g", ")", ",", "C", "o", "n", "f", "i", "d", "e", "n", "c", "e">>

\* C16: exportToCSV of zero entries is exactly the header line: one line,
\* nothing after it.
C16_EmptyExportIsHeader ==
  (csvContent # NoCsv /\ entries = << >>) =>
    /\ csvContent = HeaderLine
    /\ split(csvContent, "\n") = <<HeaderLine>>

C16_Witness ==
  /\ entries = << >>
  /\ csvContent = HeaderLine

\* C17: exportToCSV of n entries has n + 1 lines, the header and one row for
\* each entry in the order of the input; each row is one CSV record of ten
\* fields, the third of which is the name of the entry, whatever characters
\* the name has, and the tenth the confidence as a whole percentage followed
\* by '%'.
C17_OneRecordPerEntry ==
  csvContent # NoCsv =>
    LET lines == split(csvContent, "\n")
    IN  /\ Len(lines) = Len(entries) + 1
        /\ lines[1] = HeaderLine
        /\ \A i \in 1..Len(entries) :
             LET fields == csvFields(lines[i + 1])
                 e == entries[i]
             IN  /\ fields # Malformed
                 /\ Len(fields) = 10
                 /\ fields[3] = e.displayName
                 /\ fields[4] = numberToString(e.grams, 1)
                 /\ fields[6] = numberToString(e.kcal, 1)
                 /\ \E p \in 0..100 :
                      /\ fields[10] = digits(p) \o <<"%">>
                      /\ 10 * p - 5 <= e.confidence
                      /\ e.confidence <= 10 * p + 5

\* the rows of names without a double quote are records of ten fields
C17_Witness ==
  /\ csvContent # NoCsv
  /\ Len(entries) = 2
  /\ entries[1].displayName = <<"a", ",", "a">>
  /\ csvFields(split(csvContent, "\n")[2])[3] = <<"a", ",", "a">>

----------------------------------------------------------------------------
\* Properties of the history and of the store

\* a store action has just run to its end without an error
OperationCompleted ==
  /\ lastRequest.outcome = "ok"
  /\ lastRequest.req \in {"getAll", "clear"}

\* the elements of a sequence
Range(s) == {s[i] : i \in 1..Len(s)}

C19_SaveAddsNewEntry ==
  (lastRequest.req = "put" /\ lastRequest.outcome = "ok") =>
    \E e \in db :
      /\ \A x \in lastRequest.before : x.id # e.id
      /\ db = lastRequest.before \cup {e}
      /\ Cardinality(db) = Cardinality(lastRequest.before) + 1

\* C20: a response that arrives when the screen that waited for it is no
\* longer shown changes neither the screen nor the predictions nor the
\* nutrition record.
C20_LateResponseIgnored ==
  [][\A i \in 1..Len(tasks) :
       (tasks' = RemoveAt(tasks, i) /\ currentScreen # tasks[i].screen)
         => UNCHANGED <<currentScreen, predictions, nutritionData>>]_vars

-----------------------------------------------------------------------------
\* Properties of getNutrition in time

\* every provider call that is started completes at some time
EveryCallCompletes ==
  \A provider \in {"nutritionix", "calorieninjas"} :
    [](provider \in inflight => <>(provider \notin inflight))

\* C22: getNutrition enforces no timeout.  While a provider call is pending
\* the resolution has not returned; while the call of the primary provider is
\* pending no other tier has been consulted; and a resolution whose provider
\* calls all complete returns.
C22_NoTimeout ==
  /\ [](inflight # {} => pc # "done" /\ result = NoResult)
  /\ []("nutritionix" \in inflight => calls = <<"nutritionix">>)
  /\ [](pc = "done" => inflight = {})
  /\ (EveryCallCompletes => (pc # "idle" ~> pc = "done"))

\* the primary provider has not answered and a secondary one is configured
C22_Witness ==
  /\ "nutritionix" \in inflight
  /\ env.VITE_CALORIE_NINJAS_KEY
  /\ pc = "nxJson"

\* C27: saveToHistory is guarded.  With the food, the record or the photo
\* unset no write is requested; a write that fails sets error and leaves the
\* screen, the list and the database as they were; and the screen becomes
\* 'history' only when the read that follows a successful write has
\* succeeded, with the list read from the database.
C27_SaveGuarded ==
  [][/\ (selectedFood = Null \/ nutritionData = Null \/ capturedImage = Null)
          => ~(/\ Len(dbQueue') > Len(dbQueue)
               /\ dbQueue'[Len(dbQueue')].req = "put")
     /\ (dbQueue # << >> /\ Head(dbQueue).req = "put" /\ dbQueue' = Tail(dbQueue))
          => (error' # Null /\ UNCHANGED <<currentScreen, history, db>>)
     /\ (currentScreen # "history" /\ currentScreen' = "history")
          => /\ dbQueue # << >>
             /\ Head(dbQueue) = Request("getAll", << >>, "saveToHistory")
             /\ lastRequest'.outcome = "ok"
             /\ history' = getHistoryEntries(db)]_vars

\* a write has failed on the result screen: the message is set, the screen
\* and the empty list are as before
C27_Witness ==
  /\ lastRequest.req = "put"
  /\ lastRequest.outcome = "error"
  /\ error = Message("Failed to save entry to history")
  /\ currentScreen = "result"
  /\ history = << >>
  /\ db = {}

-----------------------------------------------------------------------------
\* Properties of the photo flow

\* the calls of one kind that have not settled
InFlight(kind) == {i \in 1..Len(tasks) : tasks[i].kind = kind}

\* C21: at most one call of getNutrition started by the store is in flight:
\* no food is selected or searched while an earlier resolution is pending.
C21_OneResolverCallInFlight == Cardinality(InFlight("getNutrition")) <= 1

\* C23: a failure of the capture maps to a message: when the image of
\* capturePhoto fails to decode and nothing else is pending (so that no later
\* step of the program can change the flags), the store has an error and is
\* no longer loading.
C23_CaptureFailureShown ==
  [][(Len(tasks) = 1 /\ tasks[1].kind = "imageLoad" /\ tasks' = << >>)
       => (error' # Null /\ isLoading' = FALSE)]_vars

\* C25: the entry saveToHistory builds is consistent: on the result screen,
\* with every resolution completed, its kcal and macros are those of the
\* record resolved for its own food at its own grams, in whatever order the
\* resolutions of the foods selected one after the other completed.
C25_SavedEntryConsistent ==
  (/\ currentScreen = "result"
   /\ selectedFood # Null /\ nutritionData # Null /\ capturedImage # Null
   /\ InFlight("getNutrition") = {})
    => LET entry == historyEntry(now, now)
           resolved == getNutritionFromLocal(entry.displayName)
       IN  /\ entry.kcal = calculateCalories(resolved, entry.grams.v)
           /\ entry.macros = calculateMacros(resolved, entry.grams.v)

\* the work the store has started and that has not completed: captures being
\* decoded or classified, and resolutions
WorkInFlight ==
  InFlight("imageLoad") \cup InFlight("predictFood") \cup InFlight("getNutrition")

\* C26: the loading flag tracks the work in flight: isLoading is true
\* exactly while a capture or a resolution started by the store has not
\* completed.
C26_LoadingTracksWork == isLoading = (WorkInFlight # {})

-----------------------------------------------------------------------------
\* Properties of the model loading

\* the load that call i started has succeeded
LoadSucceeded(i) ==
  /\ predictCalls[i].pc \in {"predict", "done"}
  /\ predictCalls[i].outcome \in {"pending", "results", "Failed to analyze image. Please try again."}

\* C30: loading the model is safe when calls of predictFood overlap: at most
\* one load is in progress, a loadModel that has resolved without an error
\* has left a model, and no call made during a load that succeeds fails with
\* 'Model not loaded'.
C30_ModelLoadSafe ==
  /\ Cardinality({i \in 1..Len(predictCalls) : predictCalls[i].pc = "loadLayersModel"}) <= 1
  /\ \A i \in 1..Len(predictCalls) :
       /\ predictCalls[i].pc = "loadModelReturned" => model # Null
       /\ (predictCalls[i].outcome = "Model not loaded"
            /\ predictCalls[i].during # 0)
           => ~LoadSucceeded(predictCalls[i].during)

-----------------------------------------------------------------------------
\* Properties of the portion screen

\* C24: every edit of the picker reaches the store: once the effect has run
\* the portion of the store is the latest portion of the picker, grams and
\* servings, also after several edits.
C24_StoreHasLatestPortion == ~EffectPending => portionData = portion

\* 60 g, reached by a preset and a step, has been handed to the store
C24_Witness ==
  /\ ~EffectPending
  /\ edited # NoEdit
  /\ portion.grams = Num(60)
  /\ portionData = portion

\* nothing is left to run: no effect, no render of App
Quiescent == ~EffectPending /\ ~renderPending

\* C28: when the user makes no further edit, the chain from the effect of
\* the picker over the store to the render of App comes to an end: from some
\* time on no effect and no render is pending.
C28_NotificationSettles == <>[][~PickerClick]_vars => <>[]Quiescent

====
